---- MODULE Spec2Model ----
(***************************************************************************)
(* Olivetti Programma 101 emulator (src/emulator.py): the Register class   *)
(* and the key loop, as a state machine.                                   *)
(*                                                                         *)
(* A Register object holds a reference `reg` to a numpy array of 24 cells  *)
(* (22 digits, the float position, the sign) and its own float_active      *)
(* flag.  `A.reg = M.reg` copies the reference, not the cells, and erase() *)
(* rebinds the reference to a new array, so the model keeps the arrays in  *)
(* a heap and every register's reference into it.                          *)
(*                                                                         *)
(* Python strings are sequences of one-character strings.  Python integers *)
(* are unbounded: a value is a sign and a magnitude, the magnitude a       *)
(* sequence of decimal digits, least significant first, without leading    *)
(* zeros (zero is the empty sequence).                                     *)
(***************************************************************************)
EXTENDS Integers, Sequences, FiniteSets, TLC

VARIABLES
    reg,                  \* register name -> the array its .reg refers to
    heap,                 \* array id -> the 24 cells of that array
    float_active,         \* register name -> its float_active attribute
    previous_key,         \* global previous_key
    previous_key_backup,  \* global previous_key_backup
    n_digits,             \* global n_digits: <<"int", 0>> or <<"str", line>>
    pc,                   \* "input": waiting in input(); else the uncaught exception
    out,                  \* what the last key printed
    hist                  \* the tokens read by input() so far (history)

vars == <<reg, heap, float_active, previous_key, previous_key_backup,
          n_digits, pc, out, hist>>

-----------------------------------------------------------------------------
(* Constants of the program *)

REG_LEN_MAX == 24

RegNames == {"M", "A", "R", "B", "C", "D", "E", "F"}

\* One array per Register object is enough: erase() of a register needs an
\* array no other register refers to.
ArrIds == 1..8

Cells == 0..(REG_LEN_MAX - 1)

DigitChars == <<"0", "1", "2", "3", "4", "5", "6", "7", "8", "9">>

DigitKeys == {DigitChars[i] : i \in 1..10}

\* np.zeros((REG_LEN_MAX), dtype='short')
Zeros == [i \in Cells |-> 0]

-----------------------------------------------------------------------------
(* Python string helpers *)

\* int(c) for a one-character string; "ValueError" is signalled by the caller
IsDigit(c) == c \in DigitKeys

IntOf(c) == CHOOSE d \in 0..9 : DigitChars[d + 1] = c

CharOf(d) == DigitChars[d + 1]

\* `key in text` for a key that is one character or empty: the empty string
\* is a substring of every string.
InStr(key, chars) == key = "" \/ key \in chars

Reverse(s) == [i \in 1..Len(s) |-> s[Len(s) + 1 - i]]

\* s.find(c): index from 0 of the first c, -1 if there is none
Find(s, c) ==
    IF \E i \in 1..Len(s) : s[i] = c
    THEN (CHOOSE i \in 1..Len(s) : s[i] = c /\ \A j \in 1..(i - 1) : s[j] # c) - 1
    ELSE -1

\* s.replace(c, '')
Remove(s, c) == SelectSeq(s, LAMBDA x : x # c)

\* s[:e] with Python's clamping and negative indices
SliceTo(s, e) ==
    LET n  == Len(s)
        e1 == IF e < 0 THEN n + e ELSE e
        e2 == IF e1 < 0 THEN 0 ELSE IF e1 > n THEN n ELSE e1
    IN  SubSeq(s, 1, e2)

\* s[b:] with Python's clamping and negative indices
SliceFrom(s, b) ==
    LET n  == Len(s)
        b1 == IF b < 0 THEN n + b ELSE b
        b2 == IF b1 < 0 THEN 0 ELSE IF b1 > n THEN n ELSE b1
    IN  SubSeq(s, b2 + 1, n)

-----------------------------------------------------------------------------
(* Unbounded integers: magnitudes as digit sequences, least significant first *)

RECURSIVE Norm(_)
Norm(m) ==
    IF m = <<>> THEN <<>>
    ELSE IF m[Len(m)] = 0 THEN Norm(SubSeq(m, 1, Len(m) - 1))
    ELSE m

Dig(m, i) == IF i <= Len(m) THEN m[i] ELSE 0

Max(a, b) == IF a >= b THEN a ELSE b

RECURSIVE AddFrom(_, _, _, _)
AddFrom(a, b, i, carry) ==
    IF i > Max(Len(a), Len(b))
    THEN IF carry = 0 THEN <<>> ELSE <<carry>>
    ELSE LET t == Dig(a, i) + Dig(b, i) + carry
         IN  <<t % 10>> \o AddFrom(a, b, i + 1, t \div 10)

AddMag(a, b) == Norm(AddFrom(a, b, 1, 0))

\* a - b for a >= b
RECURSIVE SubFrom(_, _, _, _)
SubFrom(a, b, i, borrow) ==
    IF i > Len(a) THEN <<>>
    ELSE LET t == Dig(a, i) - Dig(b, i) - borrow
         IN  IF t < 0
             THEN <<t + 10>> \o SubFrom(a, b, i + 1, 1)
             ELSE <<t>> \o SubFrom(a, b, i + 1, 0)

SubMag(a, b) == Norm(SubFrom(a, b, 1, 0))

\* a < b on normalised magnitudes
RECURSIVE LessFrom(_, _, _)
LessFrom(a, b, i) ==
    IF i = 0 THEN FALSE
    ELSE IF a[i] # b[i] THEN a[i] < b[i]
    ELSE LessFrom(a, b, i - 1)

LessMag(a, b) ==
    IF Len(a) # Len(b) THEN Len(a) < Len(b) ELSE LessFrom(a, b, Len(a))

\* a * d for one digit d, then shifted sums
RECURSIVE MulDigitFrom(_, _, _, _)
MulDigitFrom(a, d, i, carry) ==
    IF i > Len(a)
    THEN IF carry = 0 THEN <<>> ELSE <<carry>>
    ELSE LET t == a[i] * d + carry
         IN  <<t % 10>> \o MulDigitFrom(a, d, i + 1, t \div 10)

RECURSIVE MulMag(_, _)
MulMag(a, b) ==
    IF b = <<>> \/ a = <<>> THEN <<>>
    ELSE AddMag(Norm(MulDigitFrom(a, b[1], 1, 0)),
                Norm(<<0>> \o MulMag(a, SubSeq(b, 2, Len(b)))))

\* A Python int
MkInt(neg, mag) == [kind |-> "int", neg |-> neg /\ mag # <<>>, mag |-> mag]

IntNeg(v) == MkInt(~v.neg, v.mag)

IntAdd(v, w) ==
    IF v.neg = w.neg THEN MkInt(v.neg, AddMag(v.mag, w.mag))
    ELSE IF LessMag(v.mag, w.mag) THEN MkInt(w.neg, SubMag(w.mag, v.mag))
    ELSE MkInt(v.neg, SubMag(v.mag, w.mag))

IntSub(v, w) == IntAdd(v, IntNeg(w))

IntMul(v, w) == MkInt(v.neg # w.neg, MulMag(v.mag, w.mag))

IntAbs(v) == MkInt(FALSE, v.mag)

\* str(v) for a Python int
StrInt(v) ==
    LET ds == IF v.mag = <<>> THEN <<"0">>
              ELSE [i \in 1..Len(v.mag) |-> CharOf(v.mag[Len(v.mag) + 1 - i])]
    IN  IF v.neg THEN <<"-">> \o ds ELSE ds

-----------------------------------------------------------------------------
(* class Register: an array `a` of 24 cells and the float_active flag `fa` *)

float_pos(a) == a[22]

sign(a) == IF a[23] = 0 THEN "+" ELSE "-"

\* the sign setter: 1 corresponds to "-"
SetSign(a, c) == [a EXCEPT ![23] = IF c = "-" THEN 1 ELSE 0]

\* (mutant) full only when the top slot is occupied and the float position is 21
is_fullBoth(a) == a[21] # 0 /\ float_pos(a) = 21

is_full(a) == ~(a[21] = 0 /\ float_pos(a) # 21)

\* (mutant) the loop starts one cell too low: cell 21 is never written
shiftShort(a, fa) ==
    [i \in Cells |->
        IF i \in 1..(REG_LEN_MAX - 4) THEN a[i - 1]
        ELSE IF i = 22 /\ fa THEN a[22] + 1
        ELSE a[i]]

\* (mutant) the float position is not advanced with the digits
shiftFixedPoint(a, fa) ==
    [i \in Cells |->
        IF i \in 1..(REG_LEN_MAX - 3) THEN a[i - 1]
        ELSE a[i]]

\* for i in range(REG_LEN_MAX-3, 0, -1): reg[i] = reg[i-1]; float_pos += 1 if float_active
shift(a, fa) ==
    [i \in Cells |->
        IF i \in 1..(REG_LEN_MAX - 3) THEN a[i - 1]
        ELSE IF i = 22 /\ fa THEN a[22] + 1
        ELSE a[i]]

\* The magnitude held by the 22 digit cells
DigitsOf(a) == Norm([i \in 1..(REG_LEN_MAX - 2) |-> a[i - 1]])

\* float(text): a sign, digits and exactly one point, at least one digit
FloatSyntax(text) ==
    /\ Len(text) >= 2
    /\ text[1] \in {"+", "-"}
    /\ \A i \in 2..Len(text) : IsDigit(text[i]) \/ text[i] = "."
    /\ Cardinality({i \in 2..Len(text) : text[i] = "."}) <= 1
    /\ \E i \in 2..Len(text) : IsDigit(text[i])

\* read_register: [kind |-> "int", neg, mag], [kind |-> "float", neg, mag, fp]
\* (the value is mag / 10^fp) or [kind |-> "ValueError"] when float() rejects
\* the text built around the point.
read_register(a, fa) ==
    LET chars     == [i \in 1..(REG_LEN_MAX - 2) |-> CharOf(a[i - 1])]
        reg_value == Reverse(chars \o <<sign(a)>>)
        fp        == float_pos(a)
        text      == SliceTo(reg_value, 0 - fp) \o <<".">> \o SliceFrom(reg_value, 0 - fp)
    IN  IF fa
        THEN IF FloatSyntax(text)
             THEN [kind |-> "float", neg |-> sign(a) = "-", mag |-> DigitsOf(a), fp |-> fp]
             ELSE [kind |-> "ValueError"]
        ELSE MkInt(sign(a) = "-", DigitsOf(a))

\* The digit loop of write_register: reg[i] = int(x) for the reversed text;
\* cell 24 does not exist (IndexError, re-raised as Exception), and a
\* character that is no digit stops the loop with ValueError.
WriteDigits(a, text) ==
    LET rev  == Reverse(text)
        bad  == {i \in 1..Len(rev) : ~IsDigit(rev[i])}
        stop == IF bad = {} THEN Len(rev) + 1
                ELSE CHOOSE i \in bad : \A j \in bad : i <= j
        last == IF stop - 1 > REG_LEN_MAX THEN REG_LEN_MAX ELSE stop - 1
    IN  [a   |-> [i \in Cells |-> IF i + 1 <= last THEN IntOf(rev[i + 1]) ELSE a[i]],
         exc |-> IF stop > REG_LEN_MAX + 1 \/ (bad = {} /\ Len(rev) > REG_LEN_MAX)
                 THEN "Exception"
                 ELSE IF bad # {} THEN "ValueError" ELSE "none"]

\* write_register(value) on the array a with flag fa; text is str(value),
\* nd the global n_digits.  Returns the array, the flag and the exception.
write_register(a, fa, text, nd) ==
    LET a1     == SetSign(a, text[1])
        value1 == IF IsDigit(text[1]) THEN text ELSE SubSeq(text, 2, Len(text))
        hasdot == \E i \in 1..Len(value1) : value1[i] = "."
        fp     == Find(Reverse(value1), ".")
        a2     == [a1 EXCEPT ![22] = fp]
    IN  IF ~hasdot
        THEN LET w == WriteDigits(a1, value1)
             IN  [a |-> w.a, fa |-> fa, exc |-> w.exc]
        ELSE IF nd[1] = "str"
        THEN \* self.float_pos > n_digits compares a number with a str
             [a |-> a2, fa |-> fa, exc |-> "TypeError"]
        ELSE LET trunc  == fp > nd[2]
                 value2 == IF trunc THEN SliceTo(value1, nd[2] - fp) ELSE value1
                 a3     == IF trunc THEN [a2 EXCEPT ![22] = nd[2]] ELSE a2
                 w      == WriteDigits(a3, Remove(value2, "."))
             IN  [a |-> w.a, fa |-> TRUE, exc |-> w.exc]

-----------------------------------------------------------------------------
(* Python floats: IEEE 754 binary64, computed exactly.  Naturals of any     *)
(* size are sequences of limbs in base LimbBase, least significant first,  *)
(* without leading zero limb; a double is m * 2^e with 2^52 <= m < 2^53,   *)
(* or zero (m empty), and a sign.                                          *)

LimbBase == 10 ^ 4

Min(a, b) == IF a <= b THEN a ELSE b

RECURSIVE NNorm(_)
NNorm(a) ==
    IF a = <<>> THEN <<>>
    ELSE IF a[Len(a)] = 0 THEN NNorm(SubSeq(a, 1, Len(a) - 1))
    ELSE a

Limb(a, i) == IF i <= Len(a) THEN a[i] ELSE 0

RECURSIVE NAddFrom(_, _, _, _)
NAddFrom(a, b, i, carry) ==
    IF i > Len(a) /\ i > Len(b)
    THEN IF carry = 0 THEN <<>> ELSE <<carry>>
    ELSE LET t == Limb(a, i) + Limb(b, i) + carry
         IN  <<t % LimbBase>> \o NAddFrom(a, b, i + 1, t \div LimbBase)

NAdd(a, b) == NAddFrom(a, b, 1, 0)

\* a - b for a >= b
RECURSIVE NSubFrom(_, _, _, _)
NSubFrom(a, b, i, borrow) ==
    IF i > Len(a) THEN <<>>
    ELSE LET t == a[i] - Limb(b, i) - borrow
         IN  IF t < 0
             THEN <<t + LimbBase>> \o NSubFrom(a, b, i + 1, 1)
             ELSE <<t>> \o NSubFrom(a, b, i + 1, 0)

NSub(a, b) == NNorm(NSubFrom(a, b, 1, 0))

RECURSIVE NLessFrom(_, _, _)
NLessFrom(a, b, i) ==
    IF i = 0 THEN FALSE
    ELSE IF a[i] # b[i] THEN a[i] < b[i]
    ELSE NLessFrom(a, b, i - 1)

NLess(a, b) ==
    IF Len(a) # Len(b) THEN Len(a) < Len(b) ELSE NLessFrom(a, b, Len(a))

\* a * k for 0 <= k < LimbBase
RECURSIVE NMulSmallFrom(_, _, _, _)
NMulSmallFrom(a, k, i, carry) ==
    IF i > Len(a)
    THEN IF carry = 0 THEN <<>> ELSE <<carry>>
    ELSE LET t == a[i] * k + carry
         IN  <<t % LimbBase>> \o NMulSmallFrom(a, k, i + 1, t \div LimbBase)

NMulSmall(a, k) == IF k = 0 THEN <<>> ELSE NMulSmallFrom(a, k, 1, 0)

RECURSIVE NMul(_, _)
NMul(a, b) ==
    IF a = <<>> \/ b = <<>> THEN <<>>
    ELSE LET Lifted(c) == IF c = <<>> THEN <<>> ELSE <<0>> \o c
         IN  NAdd(NMulSmall(a, b[1]), Lifted(NMul(a, Tail(b))))

\* a * 2^k
RECURSIVE NShl(_, _)
NShl(a, k) ==
    IF a = <<>> THEN <<>>
    ELSE IF k >= 13 THEN NShl(NMulSmall(a, 8192), k - 13)
    ELSE NMulSmall(a, 2 ^ k)

\* a * 10^k
NMulPow10(a, k) ==
    LET Padded(b) == IF b = <<>> THEN <<>> ELSE [i \in 1..(k \div 4) |-> 0] \o b
    IN  Padded(NMulSmall(a, 10 ^ (k % 4)))

\* floor(a / k) for 0 < k < LimbBase
RECURSIVE NDivSmallFrom(_, _, _, _)
NDivSmallFrom(a, k, i, rem) ==
    IF i = 0 THEN <<>>
    ELSE LET t == rem * LimbBase + a[i]
         IN  NDivSmallFrom(a, k, i - 1, t % k) \o <<t \div k>>

NDivSmall(a, k) == NNorm(NDivSmallFrom(a, k, Len(a), 0))

\* the largest d in lo..hi with d * q <= r, by bisection
RECURSIVE QuotientLimb(_, _, _, _)
QuotientLimb(r, q, lo, hi) ==
    IF lo = hi THEN lo
    ELSE LET mid == (lo + hi + 1) \div 2
         IN  IF NLess(r, NMulSmall(q, mid))
             THEN QuotientLimb(r, q, lo, mid - 1)
             ELSE QuotientLimb(r, q, mid, hi)

\* long division of p by q, whose leading limb is at least LimbBase / 2,
\* from the limb i of p down, with the remainder and the quotient limbs of
\* the limbs above i.  The quotient of the leading limbs is the quotient
\* limb or up to 2 more.
RECURSIVE NDivStep(_, _, _, _, _)
NDivStep(p, q, i, rem, quot) ==
    LET n == Len(q)
        Taken(cur, d) ==
            NDivStep(p, q, i - 1, NSub(cur, NMulSmall(q, d)), <<d>> \o quot)
        Guessed(cur, est) ==
            Taken(cur, QuotientLimb(cur, q, Max(est - 2, 0), est))
        Brought(cur) ==
            IF NLess(cur, q)
            THEN NDivStep(p, q, i - 1, cur, <<0>> \o quot)
            ELSE Guessed(cur, Min((Limb(cur, n + 1) * LimbBase + Limb(cur, n)) \div q[n],
                                  LimbBase - 1))
    IN  IF i = 0 THEN [q |-> quot, r |-> rem]
        ELSE Brought(NNorm(<<p[i]>> \o rem))

\* quotient and remainder of p by q > 0; both are scaled first to bring the
\* leading limb of the divisor up to LimbBase / 2
NDivMod(p, q) ==
    LET Unscaled(h, f) == [q |-> NNorm(h.q), r |-> NDivSmall(h.r, f)]
        Divided(pf, f) ==
            Unscaled(NDivStep(pf, NMulSmall(q, f), Len(pf), <<>>, <<>>), f)
        ScaledBy(f) == Divided(NMulSmall(p, f), f)
    IN  ScaledBy(LimbBase \div (q[Len(q)] + 1))

NOdd(a) == a # <<>> /\ a[1] % 2 = 1

\* limbs of a magnitude given as decimal digits, least significant first
NOfDigits(mag) ==
    NNorm([i \in 1..((Len(mag) + 3) \div 4) |->
            Dig(mag, 4 * i - 3) + 10 * Dig(mag, 4 * i - 2)
            + 100 * Dig(mag, 4 * i - 1) + 1000 * Dig(mag, 4 * i)])

\* decimal digits of a natural, least significant first
DigitsOfN(a) ==
    Norm([i \in 1..(4 * Len(a)) |-> (a[(i + 3) \div 4] \div (10 ^ ((i - 1) % 4))) % 10])

\* the number of binary digits of a natural
RECURSIVE BitLen(_)
BitLen(a) ==
    IF a = <<>> THEN 0
    ELSE IF Len(a) = 1 /\ a[1] < 8192
    THEN CHOOSE k \in 1..13 : 2 ^ (k - 1) <= a[1] /\ a[1] < 2 ^ k
    ELSE 13 + BitLen(NDivSmall(a, 8192))

\* floor(a / 2^k)
RECURSIVE NShr(_, _)
NShr(a, k) ==
    IF a = <<>> THEN <<>>
    ELSE IF k >= 13 THEN NShr(NDivSmall(a, 8192), k - 13)
    ELSE NDivSmall(a, 2 ^ k)

\* floor(log2(p / q)) for p, q > 0: the difference of the lengths, or 1 less
Log2(p, q) ==
    LET Adjusted(g) ==
            IF g >= 0
            THEN (IF NLess(p, NShl(q, g)) THEN g - 1 ELSE g)
            ELSE (IF NLess(NShl(p, 0 - g), q) THEN g - 1 ELSE g)
    IN  Adjusted(BitLen(p) - BitLen(q))

Two52 == NShl(<<1>>, 52)

Two53 == NShl(<<1>>, 53)

Double(neg, m, e) == [kind |-> "double", neg |-> neg, m |-> m, e |-> e]

\* the double nearest to p / q (round half to even), p and q naturals, q > 0
RoundRatio(neg, p, q) ==
    LET Packed(m, lg) ==
            IF m = Two53 THEN Double(neg, Two52, lg - 51)
            ELSE Double(neg, m, lg - 52)
        Rounded(d, q1, r2, lg) ==
            Packed(IF NLess(q1, r2) \/ (r2 = q1 /\ NOdd(d.q))
                   THEN NAdd(d.q, <<1>>) ELSE d.q, lg)
        Quotient(d, q1, lg) == Rounded(d, q1, NMulSmall(d.r, 2), lg)
        Aligned(p1, q1, lg) == Quotient(NDivMod(p1, q1), q1, lg)
        Ranged(lg) ==
            Aligned(IF lg < 52 THEN NShl(p, 52 - lg) ELSE p,
                    IF lg > 52 THEN NShl(q, lg - 52) ELSE q, lg)
    IN  IF p = <<>> THEN Double(neg, <<>>, 0) ELSE Ranged(Log2(p, q))

\* the double nearest to p * 2^e (round half to even), p a natural
RoundScaled(neg, p, e) ==
    LET Packed(m, s) ==
            IF m = Two53 THEN Double(neg, Two52, e + s + 1)
            ELSE Double(neg, m, e + s)
        Halved(d, h, s) ==
            Packed(IF NOdd(d) /\ (NShl(d, s - 1) # p \/ NOdd(h))
                   THEN NAdd(h, <<1>>) ELSE h, s)
        Dropped(d, s) == Halved(d, NDivSmall(d, 2), s)
        Sized(bl) ==
            IF bl <= 53 THEN Double(neg, NShl(p, 53 - bl), e - (53 - bl))
            ELSE Dropped(NShr(p, bl - 54), bl - 53)
    IN  IF p = <<>> THEN Double(neg, <<>>, 0) ELSE Sized(BitLen(p))

\* float(v): of an int, and of the text read_register gives to float()
ToDouble(v) ==
    IF v.kind = "double" THEN v
    ELSE IF v.kind = "int" THEN RoundScaled(v.neg, NOfDigits(v.mag), 0)
    ELSE RoundRatio(v.neg, NOfDigits(v.mag), NMulPow10(<<1>>, v.fp))

\* x + y.  An addend below a quarter of the unit of the other one takes the
\* sum to no other double whatever its size, and is placed just below that
\* quarter.
DoubleAdd(x, y) ==
    LET Summed(xs, ys, e) ==
            RoundScaled(IF x.neg = y.neg THEN x.neg
                        ELSE IF NLess(xs, ys) THEN y.neg
                        ELSE IF xs = ys THEN FALSE ELSE x.neg,
                        IF x.neg = y.neg THEN NAdd(xs, ys)
                        ELSE IF NLess(xs, ys) THEN NSub(ys, xs) ELSE NSub(xs, ys),
                        e)
        Levelled(xe, ye, e) == Summed(NShl(x.m, xe - e), NShl(y.m, ye - e), e)
        Placed(xe, ye) == Levelled(xe, ye, Min(xe, ye))
    IN  IF x.m = <<>> /\ y.m = <<>> THEN Double(x.neg /\ y.neg, <<>>, 0)
        ELSE IF x.m = <<>> THEN y
        ELSE IF y.m = <<>> THEN x
        ELSE Placed(IF x.e < y.e - 55 THEN y.e - 55 ELSE x.e,
                    IF y.e < x.e - 55 THEN x.e - 55 ELSE y.e)

\* x - y
DoubleSub(x, y) == DoubleAdd(x, [y EXCEPT !.neg = ~y.neg])

\* x * y
DoubleMul(x, y) ==
    RoundScaled(x.neg # y.neg, NMul(x.m, y.m), x.e + y.e)

\* x / y for y # 0
DoubleDiv(x, y) ==
    LET e == x.e - y.e
    IN  IF e >= 0 THEN RoundRatio(x.neg # y.neg, NShl(x.m, e), y.m)
        ELSE RoundRatio(x.neg # y.neg, x.m, NShl(y.m, 0 - e))

\* x % y for y # 0: fmod(x, y), which is exact, moved to the sign of y
DoubleMod(x, y) ==
    LET Signed(f) == IF x.neg # y.neg THEN DoubleAdd(f, y) ELSE f
        Remainder(r, e) ==
            IF r = <<>> THEN Double(y.neg, <<>>, 0)
            ELSE Signed(RoundScaled(x.neg, r, e))
        Levelled(e) ==
            Remainder(NDivMod(NShl(x.m, x.e - e), NShl(y.m, y.e - e)).r, e)
    IN  IF x.m = <<>> THEN Double(y.neg, <<>>, 0)
        ELSE Levelled(Min(x.e, y.e))

-----------------------------------------------------------------------------
(* value ** 0.5 is float.__pow__, which calls pow(value, 0.5) of the C      *)
(* library: here that of glibc 2.36 for x86_64 processors with fused        *)
(* multiply-add, instruction by instruction.  pow(x, y) is exp(y * log(x))  *)
(* with the logarithm in two doubles; its result is within a unit in the    *)
(* last place of the root, and not always the double nearest to it.         *)

\* x * y + z with one rounding.  A zero product has the sign of x * y, and
\* the sum of two zeros is -0.0 only if both are.  The product has at most
\* 106 binary digits;
\* as in the sum, an addend below a quarter of the unit of the other one is
\* placed just below that quarter.
DoubleFma(x, y, z) ==
    LET Summed(ps, zs, neg, e) ==
            RoundScaled(IF neg = z.neg THEN neg
                        ELSE IF NLess(ps, zs) THEN z.neg
                        ELSE IF ps = zs THEN FALSE ELSE neg,
                        IF neg = z.neg THEN NAdd(ps, zs)
                        ELSE IF NLess(ps, zs) THEN NSub(zs, ps) ELSE NSub(ps, zs),
                        e)
        Levelled(p, pe, ze, e) ==
            Summed(NShl(p, pe - e), NShl(z.m, ze - e), x.neg # y.neg, e)
        Placed(p, pe, ze) == Levelled(p, pe, ze, Min(pe, ze))
        Multiplied(p, pe) ==
            IF p = <<>> /\ z.m = <<>> THEN Double((x.neg # y.neg) /\ z.neg, <<>>, 0)
            ELSE IF p = <<>> THEN z
            ELSE IF z.m = <<>> THEN RoundScaled(x.neg # y.neg, p, pe)
            ELSE Placed(p, IF pe < z.e - 108 THEN z.e - 108 ELSE pe,
                        IF z.e < pe - 53 THEN pe - 53 ELSE z.e)
    IN  Multiplied(NMul(x.m, y.m), x.e + y.e)

\* the library's table __pow_log_data: ln(2) in two doubles, the
\* coefficients A[0..6] of the polynomial, and for each of the 128
\* intervals of the significand <<1/c, log(c), the tail of log(c)>>
PowLogData ==
    [ln2hi |-> Double(FALSE, <<4864, 6816, 3147, 6243>>, -53),
     ln2lo |-> Double(FALSE, <<2832, 6834, 8067, 8711>>, -97),
     poly  |-> <<Double(TRUE, <<496, 2737, 5996, 4503>>, -53),
                Double(TRUE, <<672, 316, 7995, 6004>>, -53),
                Double(FALSE, <<502, 2737, 5996, 4503>>, -53),
                Double(FALSE, <<1006, 9958, 7593, 7205>>, -53),
                Double(TRUE, <<7338, 29, 7995, 6004>>, -53),
                Double(TRUE, <<8361, 7684, 2073, 5147>>, -52),
                Double(FALSE, <<3939, 4550, 7866, 4503>>, -52)>>,
     tab   |-> <<
        <<Double(FALSE, <<8592, 4807, 3713, 6368>>, -52),
          Double(TRUE, <<6688, 1726, 3904, 6241>>, -54),
          Double(FALSE, <<4656, 8101, 4167, 7516>>, -100)>>,
        <<Double(FALSE, <<9760, 7598, 1869, 6333>>, -52),
          Double(TRUE, <<5376, 16, 5874, 6141>>, -54),
          Double(TRUE, <<1760, 6484, 7567, 8062>>, -98)>>,
        <<Double(FALSE, <<928, 390, 26, 6298>>, -52),
          Double(TRUE, <<48, 7453, 2283, 6041>>, -54),
          Double(TRUE, <<6205, 5715, 4846, 5456>>, -97)>>,
        <<Double(FALSE, <<2096, 3181, 8182, 6262>>, -52),
          Double(TRUE, <<4928, 1052, 3071, 5940>>, -54),
          Double(TRUE, <<5397, 3740, 5669, 6338>>, -101)>>,
        <<Double(FALSE, <<3264, 5972, 6338, 6227>>, -52),
          Double(TRUE, <<8368, 7301, 8172, 5838>>, -54),
          Double(TRUE, <<2976, 8868, 6397, 5659>>, -99)>>,
        <<Double(FALSE, <<4432, 8763, 4494, 6192>>, -52),
          Double(TRUE, <<1024, 1920, 7524, 5736>>, -54),
          Double(FALSE, <<9276, 4553, 7221, 5585>>, -98)>>,
        <<Double(FALSE, <<5600, 1554, 2651, 6157>>, -52),
          Double(TRUE, <<6208, 9612, 1059, 5634>>, -54),
          Double(FALSE, <<7258, 7710, 9147, 7954>>, -102)>>,
        <<Double(FALSE, <<6768, 4345, 807, 6122>>, -52),
          Double(TRUE, <<848, 3819, 8713, 5530>>, -54),
          Double(FALSE, <<4800, 4250, 658, 4699>>, -97)>>,
        <<Double(FALSE, <<7936, 7136, 8963, 6086>>, -52),
          Double(TRUE, <<2480, 6453, 416, 5427>>, -54),
          Double(FALSE, <<930, 2799, 1653, 6009>>, -97)>>,
        <<Double(FALSE, <<9104, 9927, 7119, 6051>>, -52),
          Double(TRUE, <<704, 7636, 6100, 5322>>, -54),
          Double(FALSE, <<8120, 4578, 8208, 6327>>, -97)>>,
        <<Double(FALSE, <<272, 2719, 5276, 6016>>, -52),
          Double(TRUE, <<4672, 5420, 5695, 5217>>, -54),
          Double(FALSE, <<4831, 2614, 1648, 6133>>, -98)>>,
        <<Double(FALSE, <<272, 2719, 5276, 6016>>, -52),
          Double(TRUE, <<4672, 5420, 5695, 5217>>, -54),
          Double(FALSE, <<4831, 2614, 1648, 6133>>, -98)>>,
        <<Double(FALSE, <<1440, 5510, 3432, 5981>>, -52),
          Double(TRUE, <<2752, 5508, 9129, 5111>>, -54),
          Double(TRUE, <<982, 2954, 5608, 6291>>, -98)>>,
        <<Double(FALSE, <<2608, 8301, 1588, 5946>>, -52),
          Double(TRUE, <<8224, 958, 6330, 5005>>, -54),
          Double(TRUE, <<3572, 2673, 9480, 8918>>, -98)>>,
        <<Double(FALSE, <<3776, 1092, 9745, 5910>>, -52),
          Double(TRUE, <<6912, 1888, 7223, 4898>>, -54),
          Double(FALSE, <<6944, 621, 6604, 8760>>, -98)>>,
        <<Double(FALSE, <<4944, 3883, 7901, 5875>>, -52),
          Double(TRUE, <<2656, 5162, 1733, 4791>>, -54),
          Double(TRUE, <<7286, 9967, 134, 6378>>, -97)>>,
        <<Double(FALSE, <<6112, 6674, 6057, 5840>>, -52),
          Double(TRUE, <<4960, 4074, 9784, 4682>>, -54),
          Double(TRUE, <<7630, 2420, 9714, 7999>>, -99)>>,
        <<Double(FALSE, <<7280, 9465, 4213, 5805>>, -52),
          Double(TRUE, <<5808, 8021, 1297, 4574>>, -54),
          Double(TRUE, <<5423, 9605, 7661, 4563>>, -100)>>,
        <<Double(FALSE, <<7280, 9465, 4213, 5805>>, -52),
          Double(TRUE, <<5808, 8021, 1297, 4574>>, -54),
          Double(TRUE, <<5423, 9605, 7661, 4563>>, -100)>>,
        <<Double(FALSE, <<8448, 2256, 2370, 5770>>, -52),
          Double(TRUE, <<7312, 4327, 2388, 8929>>, -55),
          Double(FALSE, <<8407, 379, 6151, 8258>>, -99)>>,
        <<Double(FALSE, <<9616, 5047, 526, 5735>>, -52),
          Double(TRUE, <<5472, 4154, 8785, 8708>>, -55),
          Double(FALSE, <<724, 1813, 3944, 7642>>, -97)>>,
        <<Double(FALSE, <<784, 7839, 8682, 5699>>, -52),
          Double(TRUE, <<1728, 6788, 1621, 8487>>, -55),
          Double(TRUE, <<7152, 2674, 9422, 6525>>, -98)>>,
        <<Double(FALSE, <<1952, 630, 6839, 5664>>, -52),
          Double(TRUE, <<3792, 2867, 729, 8264>>, -55),
          Double(FALSE, <<9723, 8770, 2096, 4990>>, -97)>>,
        <<Double(FALSE, <<3120, 3421, 4995, 5629>>, -52),
          Double(TRUE, <<1936, 1639, 5937, 8039>>, -55),
          Double(FALSE, <<6900, 2900, 3064, 6607>>, -97)>>,
        <<Double(FALSE, <<3120, 3421, 4995, 5629>>, -52),
          Double(TRUE, <<1936, 1639, 5937, 8039>>, -55),
          Double(FALSE, <<6900, 2900, 3064, 6607>>, -97)>>,
        <<Double(FALSE, <<4288, 6212, 3151, 5594>>, -52),
          Double(TRUE, <<6960, 173, 7071, 7813>>, -55),
          Double(FALSE, <<7103, 7021, 3930, 7123>>, -98)>>,
        <<Double(FALSE, <<5456, 9003, 1307, 5559>>, -52),
          Double(TRUE, <<3728, 2551, 3953, 7586>>, -55),
          Double(FALSE, <<2342, 7364, 5375, 7404>>, -104)>>,
        <<Double(FALSE, <<6624, 1794, 9464, 5523>>, -52),
          Double(TRUE, <<752, 9025, 6402, 7357>>, -55),
          Double(TRUE, <<6698, 3116, 3393, 6065>>, -97)>>,
        <<Double(FALSE, <<6624, 1794, 9464, 5523>>, -52),
          Double(TRUE, <<752, 9025, 6402, 7357>>, -55),
          Double(TRUE, <<6698, 3116, 3393, 6065>>, -97)>>,
        <<Double(FALSE, <<7792, 4585, 7620, 5488>>, -52),
          Double(TRUE, <<7632, 5155, 4235, 7127>>, -55),
          Double(TRUE, <<7283, 1239, 794, 7549>>, -97)>>,
        <<Double(FALSE, <<8960, 7376, 5776, 5453>>, -52),
          Double(TRUE, <<9872, 919, 7263, 6895>>, -55),
          Double(FALSE, <<3737, 5271, 4545, 7808>>, -97)>>,
        <<Double(FALSE, <<128, 168, 3933, 5418>>, -52),
          Double(TRUE, <<4688, 9787, 5293, 6662>>, -55),
          Double(FALSE, <<2424, 1102, 2378, 7841>>, -97)>>,
        <<Double(FALSE, <<128, 168, 3933, 5418>>, -52),
          Double(TRUE, <<4688, 9787, 5293, 6662>>, -55),
          Double(FALSE, <<2424, 1102, 2378, 7841>>, -97)>>,
        <<Double(FALSE, <<1296, 2959, 2089, 5383>>, -52),
          Double(TRUE, <<6480, 7771, 8132, 6427>>, -55),
          Double(TRUE, <<6374, 9144, 7462, 4754>>, -98)>>,
        <<Double(FALSE, <<2464, 5750, 245, 5348>>, -52),
          Double(TRUE, <<6432, 2446, 5580, 6191>>, -55),
          Double(TRUE, <<3577, 6996, 2625, 8618>>, -98)>>,
        <<Double(FALSE, <<2464, 5750, 245, 5348>>, -52),
          Double(TRUE, <<6432, 2446, 5580, 6191>>, -55),
          Double(TRUE, <<3577, 6996, 2625, 8618>>, -98)>>,
        <<Double(FALSE, <<3632, 8541, 8401, 5312>>, -52),
          Double(TRUE, <<4432, 1931, 7433, 5953>>, -55),
          Double(TRUE, <<2207, 2559, 2906, 4748>>, -97)>>,
        <<Double(FALSE, <<4800, 1332, 6558, 5277>>, -52),
          Double(TRUE, <<1504, 3842, 3484, 5714>>, -55),
          Double(FALSE, <<668, 6346, 9491, 6487>>, -98)>>,
        <<Double(FALSE, <<4800, 1332, 6558, 5277>>, -52),
          Double(TRUE, <<1504, 3842, 3484, 5714>>, -55),
          Double(FALSE, <<668, 6346, 9491, 6487>>, -98)>>,
        <<Double(FALSE, <<5968, 4123, 4714, 5242>>, -52),
          Double(TRUE, <<3600, 4207, 3522, 5473>>, -55),
          Double(FALSE, <<5034, 1945, 5928, 4917>>, -100)>>,
        <<Double(FALSE, <<7136, 6914, 2870, 5207>>, -52),
          Double(TRUE, <<1328, 6349, 7331, 5230>>, -55),
          Double(TRUE, <<1464, 2549, 7372, 5784>>, -97)>>,
        <<Double(FALSE, <<8304, 9705, 1026, 5172>>, -52),
          Double(TRUE, <<2368, 9724, 4691, 4986>>, -55),
          Double(TRUE, <<726, 6812, 6915, 8585>>, -97)>>,
        <<Double(FALSE, <<8304, 9705, 1026, 5172>>, -52),
          Double(TRUE, <<2368, 9724, 4691, 4986>>, -55),
          Double(TRUE, <<726, 6812, 6915, 8585>>, -97)>>,
        <<Double(FALSE, <<9472, 2496, 9183, 5136>>, -52),
          Double(TRUE, <<4768, 8726, 5378, 4740>>, -55),
          Double(FALSE, <<7204, 5741, 4446, 7434>>, -99)>>,
        <<Double(FALSE, <<9472, 2496, 9183, 5136>>, -52),
          Double(TRUE, <<4768, 8726, 5378, 4740>>, -55),
          Double(FALSE, <<7204, 5741, 4446, 7434>>, -99)>>,
        <<Double(FALSE, <<640, 5288, 7339, 5101>>, -52),
          Double(TRUE, <<6704, 2893, 8326, 8985>>, -56),
          Double(TRUE, <<5970, 282, 9797, 6039>>, -97)>>,
        <<Double(FALSE, <<1808, 8079, 5495, 5066>>, -52),
          Double(TRUE, <<5824, 6788, 1621, 8487>>, -56),
          Double(FALSE, <<4204, 9805, 7136, 7375>>, -97)>>,
        <<Double(FALSE, <<1808, 8079, 5495, 5066>>, -52),
          Double(TRUE, <<5824, 6788, 1621, 8487>>, -56),
          Double(FALSE, <<4204, 9805, 7136, 7375>>, -97)>>,
        <<Double(FALSE, <<2976, 870, 3652, 5031>>, -52),
          Double(TRUE, <<6992, 2331, 166, 7985>>, -56),
          Double(TRUE, <<6662, 896, 3436, 8176>>, -98)>>,
        <<Double(FALSE, <<4144, 3661, 1808, 4996>>, -52),
          Double(TRUE, <<3152, 2155, 3472, 7479>>, -56),
          Double(FALSE, <<5304, 529, 8782, 5973>>, -97)>>,
        <<Double(FALSE, <<4144, 3661, 1808, 4996>>, -52),
          Double(TRUE, <<3152, 2155, 3472, 7479>>, -56),
          Double(FALSE, <<5304, 529, 8782, 5973>>, -97)>>,
        <<Double(FALSE, <<5312, 6452, 9964, 4960>>, -52),
          Double(TRUE, <<1936, 5479, 1041, 6970>>, -56),
          Double(FALSE, <<3768, 8795, 5413, 5484>>, -98)>>,
        <<Double(FALSE, <<5312, 6452, 9964, 4960>>, -52),
          Double(TRUE, <<1936, 5479, 1041, 6970>>, -56),
          Double(FALSE, <<3768, 8795, 5413, 5484>>, -98)>>,
        <<Double(FALSE, <<6480, 9243, 8120, 4925>>, -52),
          Double(TRUE, <<960, 5172, 2365, 6457>>, -56),
          Double(TRUE, <<2298, 4222, 7153, 6358>>, -97)>>,
        <<Double(FALSE, <<7648, 2034, 6277, 4890>>, -52),
          Double(TRUE, <<816, 4701, 6924, 5940>>, -56),
          Double(FALSE, <<55, 8370, 3157, 8728>>, -98)>>,
        <<Double(FALSE, <<7648, 2034, 6277, 4890>>, -52),
          Double(TRUE, <<816, 4701, 6924, 5940>>, -56),
          Double(FALSE, <<55, 8370, 3157, 8728>>, -98)>>,
        <<Double(FALSE, <<8816, 4825, 4433, 4855>>, -52),
          Double(TRUE, <<5760, 4968, 4187, 5420>>, -56),
          Double(FALSE, <<5455, 8265, 5931, 7985>>, -97)>>,
        <<Double(FALSE, <<8816, 4825, 4433, 4855>>, -52),
          Double(TRUE, <<5760, 4968, 4187, 5420>>, -56),
          Double(FALSE, <<5455, 8265, 5931, 7985>>, -97)>>,
        <<Double(FALSE, <<9984, 7616, 2589, 4820>>, -52),
          Double(TRUE, <<3056, 1041, 3612, 4896>>, -56),
          Double(FALSE, <<8041, 9210, 2446, 5766>>, -98)>>,
        <<Double(FALSE, <<1152, 408, 746, 4785>>, -52),
          Double(TRUE, <<656, 7511, 9287, 8736>>, -57),
          Double(FALSE, <<4593, 6570, 3116, 8261>>, -97)>>,
        <<Double(FALSE, <<1152, 408, 746, 4785>>, -52),
          Double(TRUE, <<656, 7511, 9287, 8736>>, -57),
          Double(FALSE, <<4593, 6570, 3116, 8261>>, -97)>>,
        <<Double(FALSE, <<2320, 3199, 8902, 4749>>, -52),
          Double(TRUE, <<9920, 2388, 3432, 7673>>, -57),
          Double(FALSE, <<5276, 155, 7637, 8024>>, -98)>>,
        <<Double(FALSE, <<2320, 3199, 8902, 4749>>, -52),
          Double(TRUE, <<9920, 2388, 3432, 7673>>, -57),
          Double(FALSE, <<5276, 155, 7637, 8024>>, -98)>>,
        <<Double(FALSE, <<3488, 5990, 7058, 4714>>, -52),
          Double(TRUE, <<240, 81, 8499, 6601>>, -57),
          Double(TRUE, <<5038, 1412, 6778, 8158>>, -97)>>,
        <<Double(FALSE, <<3488, 5990, 7058, 4714>>, -52),
          Double(TRUE, <<240, 81, 8499, 6601>>, -57),
          Double(TRUE, <<5038, 1412, 6778, 8158>>, -97)>>,
        <<Double(FALSE, <<4656, 8781, 5214, 4679>>, -52),
          Double(TRUE, <<6288, 3575, 3303, 5522>>, -57),
          Double(FALSE, <<7978, 2616, 9636, 5913>>, -100)>>,
        <<Double(FALSE, <<4656, 8781, 5214, 4679>>, -52),
          Double(TRUE, <<6288, 3575, 3303, 5522>>, -57),
          Double(FALSE, <<7978, 2616, 9636, 5913>>, -100)>>,
        <<Double(FALSE, <<5824, 1572, 3371, 4644>>, -52),
          Double(TRUE, <<7440, 5231, 3267, 8869>>, -58),
          Double(TRUE, <<3828, 351, 7772, 7177>>, -97)>>,
        <<Double(FALSE, <<5824, 1572, 3371, 4644>>, -52),
          Double(TRUE, <<7440, 5231, 3267, 8869>>, -58),
          Double(TRUE, <<3828, 351, 7772, 7177>>, -97)>>,
        <<Double(FALSE, <<6992, 4363, 1527, 4609>>, -52),
          Double(TRUE, <<3088, 1103, 4502, 6677>>, -58),
          Double(TRUE, <<2329, 4050, 7938, 6910>>, -97)>>,
        <<Double(FALSE, <<8160, 7154, 9683, 4573>>, -52),
          Double(TRUE, <<4144, 3437, 5550, 8937>>, -59),
          Double(TRUE, <<4204, 4387, 2463, 8759>>, -102)>>,
        <<Double(FALSE, <<8160, 7154, 9683, 4573>>, -52),
          Double(TRUE, <<4144, 3437, 5550, 8937>>, -59),
          Double(TRUE, <<4204, 4387, 2463, 8759>>, -102)>>,
        <<Double(FALSE, <<9328, 9945, 7839, 4538>>, -52),
          Double(TRUE, <<9280, 6748, 1970, 8972>>, -60),
          Double(TRUE, <<692, 6099, 6348, 7285>>, -98)>>,
        <<Double(FALSE, <<9328, 9945, 7839, 4538>>, -52),
          Double(TRUE, <<9280, 6748, 1970, 8972>>, -60),
          Double(TRUE, <<692, 6099, 6348, 7285>>, -98)>>,
        <<Double(FALSE, <<496, 2737, 5996, 4503>>, -52),
          Double(FALSE, <<>>, 0),
          Double(FALSE, <<>>, 0)>>,
        <<Double(FALSE, <<496, 2737, 5996, 4503>>, -52),
          Double(FALSE, <<>>, 0),
          Double(FALSE, <<>>, 0)>>,
        <<Double(FALSE, <<3328, 1056, 8305, 8936>>, -53),
          Double(FALSE, <<832, 7964, 2839, 4521>>, -59),
          Double(TRUE, <<3032, 8001, 8645, 4722>>, -98)>>,
        <<Double(FALSE, <<5664, 6638, 4617, 8866>>, -53),
          Double(FALSE, <<8352, 5270, 1548, 4539>>, -58),
          Double(TRUE, <<4994, 7317, 3080, 5590>>, -97)>>,
        <<Double(FALSE, <<8000, 2220, 930, 8796>>, -53),
          Double(FALSE, <<4720, 8793, 8233, 6835>>, -58),
          Double(TRUE, <<436, 6360, 709, 7495>>, -97)>>,
        <<Double(FALSE, <<336, 7803, 7242, 8725>>, -53),
          Double(FALSE, <<8256, 2876, 4696, 4575>>, -57),
          Double(FALSE, <<7347, 9482, 5924, 4804>>, -99)>>,
        <<Double(FALSE, <<2672, 3385, 3555, 8655>>, -53),
          Double(FALSE, <<224, 434, 4006, 5742>>, -57),
          Double(TRUE, <<3864, 33, 9845, 7905>>, -97)>>,
        <<Double(FALSE, <<5008, 8967, 9867, 8584>>, -53),
          Double(FALSE, <<608, 5242, 8576, 6918>>, -57),
          Double(TRUE, <<3421, 7042, 5587, 7170>>, -98)>>,
        <<Double(FALSE, <<7344, 4549, 6180, 8514>>, -53),
          Double(FALSE, <<7824, 8343, 9975, 8104>>, -57),
          Double(TRUE, <<9751, 9119, 7391, 7433>>, -98)>>,
        <<Double(FALSE, <<8512, 7340, 4336, 8479>>, -53),
          Double(FALSE, <<4608, 9728, 7486, 8701>>, -57),
          Double(TRUE, <<2251, 2555, 2086, 8463>>, -99)>>,
        <<Double(FALSE, <<848, 2923, 649, 8409>>, -53),
          Double(FALSE, <<6032, 7399, 3577, 4951>>, -56),
          Double(TRUE, <<4251, 6800, 3509, 5966>>, -97)>>,
        <<Double(FALSE, <<3184, 8505, 6961, 8338>>, -53),
          Double(FALSE, <<9088, 3768, 8873, 5556>>, -56),
          Double(FALSE, <<2599, 8299, 6081, 8101>>, -97)>>,
        <<Double(FALSE, <<5520, 4087, 3274, 8268>>, -53),
          Double(FALSE, <<4752, 6903, 5485, 6167>>, -56),
          Double(TRUE, <<3886, 5135, 7748, 7996>>, -97)>>,
        <<Double(FALSE, <<6688, 6878, 1430, 8233>>, -53),
          Double(FALSE, <<1280, 8560, 8308, 6474>>, -56),
          Double(FALSE, <<9762, 3281, 8931, 7914>>, -101)>>,
        <<Double(FALSE, <<9024, 2460, 7743, 8162>>, -53),
          Double(FALSE, <<8976, 383, 3548, 7093>>, -56),
          Double(FALSE, <<9114, 7764, 1123, 5367>>, -97)>>,
        <<Double(FALSE, <<1360, 8043, 4055, 8092>>, -53),
          Double(FALSE, <<928, 7414, 2339, 7717>>, -56),
          Double(TRUE, <<629, 2535, 9047, 5506>>, -98)>>,
        <<Double(FALSE, <<2528, 834, 2212, 8057>>, -53),
          Double(FALSE, <<2320, 1551, 2109, 8031>>, -56),
          Double(FALSE, <<4867, 7757, 3162, 6270>>, -97)>>,
        <<Double(FALSE, <<4864, 6416, 8524, 7986>>, -53),
          Double(FALSE, <<1824, 2686, 2991, 8663>>, -56),
          Double(TRUE, <<4768, 8484, 3301, 8374>>, -97)>>,
        <<Double(FALSE, <<6032, 9207, 6680, 7951>>, -53),
          Double(FALSE, <<3328, 1664, 4347, 8981>>, -56),
          Double(TRUE, <<3645, 7452, 695, 5969>>, -97)>>,
        <<Double(FALSE, <<8368, 4789, 2993, 7881>>, -53),
          Double(FALSE, <<7360, 4052, 9754, 4810>>, -55),
          Double(FALSE, <<2786, 3825, 3767, 5048>>, -97)>>,
        <<Double(FALSE, <<9536, 7580, 1149, 7846>>, -53),
          Double(FALSE, <<1216, 8068, 1783, 4972>>, -55),
          Double(FALSE, <<2916, 1965, 5288, 8065>>, -97)>>,
        <<Double(FALSE, <<1872, 3163, 7462, 7775>>, -53),
          Double(FALSE, <<5888, 3296, 7643, 5296>>, -55),
          Double(FALSE, <<6497, 5380, 1151, 5521>>, -99)>>,
        <<Double(FALSE, <<3040, 5954, 5618, 7740>>, -53),
          Double(FALSE, <<9568, 1786, 1605, 5460>>, -55),
          Double(FALSE, <<2713, 8079, 8486, 6244>>, -103)>>,
        <<Double(FALSE, <<5376, 1536, 1931, 7670>>, -53),
          Double(FALSE, <<8384, 1444, 1929, 5789>>, -55),
          Double(FALSE, <<8712, 5111, 5316, 6055>>, -97)>>,
        <<Double(FALSE, <<6544, 4327, 87, 7635>>, -53),
          Double(FALSE, <<9424, 4771, 8428, 5954>>, -55),
          Double(FALSE, <<9623, 6195, 5248, 6249>>, -97)>>,
        <<Double(FALSE, <<8880, 9909, 6399, 7564>>, -53),
          Double(FALSE, <<208, 355, 4452, 6288>>, -55),
          Double(FALSE, <<1736, 6731, 710, 7265>>, -98)>>,
        <<Double(FALSE, <<48, 2701, 4556, 7529>>, -53),
          Double(FALSE, <<1408, 2744, 4119, 6456>>, -55),
          Double(TRUE, <<9457, 5119, 2756, 5930>>, -97)>>,
        <<Double(FALSE, <<1216, 5492, 2712, 7494>>, -53),
          Double(FALSE, <<5792, 8358, 1653, 6625>>, -55),
          Double(TRUE, <<6325, 4197, 5201, 7993>>, -98)>>,
        <<Double(FALSE, <<3552, 1074, 9025, 7423>>, -53),
          Double(FALSE, <<1296, 1599, 622, 6965>>, -55),
          Double(TRUE, <<369, 1830, 3583, 6541>>, -99)>>,
        <<Double(FALSE, <<4720, 3865, 7181, 7388>>, -53),
          Double(FALSE, <<7792, 1849, 2207, 7136>>, -55),
          Double(FALSE, <<4879, 6390, 1795, 6740>>, -99)>>,
        <<Double(FALSE, <<7056, 9447, 3493, 7318>>, -53),
          Double(FALSE, <<3552, 2674, 9965, 7480>>, -55),
          Double(TRUE, <<2969, 7725, 328, 6881>>, -97)>>,
        <<Double(FALSE, <<8224, 2238, 1650, 7283>>, -53),
          Double(FALSE, <<9488, 1951, 6296, 7654>>, -55),
          Double(TRUE, <<2042, 7451, 1803, 7940>>, -99)>>,
        <<Double(FALSE, <<9392, 5029, 9806, 7247>>, -53),
          Double(FALSE, <<8144, 5379, 1035, 7829>>, -55),
          Double(TRUE, <<4278, 896, 810, 8246>>, -97)>>,
        <<Double(FALSE, <<560, 7821, 7962, 7212>>, -53),
          Double(FALSE, <<4304, 1299, 4265, 8004>>, -55),
          Double(TRUE, <<1202, 8946, 522, 5045>>, -100)>>,
        <<Double(FALSE, <<2896, 3403, 4275, 7142>>, -53),
          Double(FALSE, <<944, 4245, 6528, 8357>>, -55),
          Double(TRUE, <<85, 9358, 9093, 7598>>, -97)>>,
        <<Double(FALSE, <<4064, 6194, 2431, 7107>>, -53),
          Double(FALSE, <<224, 8930, 5731, 8535>>, -55),
          Double(FALSE, <<1408, 875, 5099, 5086>>, -103)>>,
        <<Double(FALSE, <<5232, 8985, 587, 7072>>, -53),
          Double(FALSE, <<5712, 1915, 3765, 8714>>, -55),
          Double(TRUE, <<7297, 7929, 7251, 7354>>, -103)>>,
        <<Double(FALSE, <<6400, 1776, 8744, 7036>>, -53),
          Double(FALSE, <<9680, 3987, 716, 8894>>, -55),
          Double(FALSE, <<9296, 3374, 422, 7824>>, -98)>>,
        <<Double(FALSE, <<8736, 7358, 5056, 6966>>, -53),
          Double(FALSE, <<9296, 7515, 865, 4628>>, -54),
          Double(FALSE, <<7521, 3747, 8642, 6927>>, -100)>>,
        <<Double(FALSE, <<9904, 149, 3213, 6931>>, -53),
          Double(FALSE, <<7728, 1437, 2989, 4719>>, -54),
          Double(FALSE, <<6905, 1695, 9101, 6500>>, -97)>>,
        <<Double(FALSE, <<1072, 2941, 1369, 6896>>, -53),
          Double(FALSE, <<9408, 4052, 9754, 4810>>, -54),
          Double(TRUE, <<6412, 3297, 6450, 7917>>, -97)>>,
        <<Double(FALSE, <<2240, 5732, 9525, 6860>>, -53),
          Double(FALSE, <<4944, 235, 1209, 4903>>, -54),
          Double(FALSE, <<2449, 8495, 337, 7770>>, -97)>>,
        <<Double(FALSE, <<3408, 8523, 7681, 6825>>, -53),
          Double(FALSE, <<1904, 2185, 7401, 4995>>, -54),
          Double(FALSE, <<4455, 4901, 8375, 8064>>, -97)>>,
        <<Double(FALSE, <<4576, 1314, 5838, 6790>>, -53),
          Double(FALSE, <<1904, 9577, 8379, 5088>>, -54),
          Double(FALSE, <<4074, 7216, 7400, 7467>>, -99)>>,
        <<Double(FALSE, <<6912, 6896, 2150, 6720>>, -53),
          Double(FALSE, <<9856, 7704, 4896, 5276>>, -54),
          Double(FALSE, <<2244, 9699, 9481, 7490>>, -97)>>,
        <<Double(FALSE, <<8080, 9687, 306, 6685>>, -53),
          Double(FALSE, <<2592, 6590, 536, 5371>>, -54),
          Double(TRUE, <<4040, 9711, 4165, 7004>>, -97)>>,
        <<Double(FALSE, <<9248, 2478, 8463, 6649>>, -53),
          Double(FALSE, <<3408, 7547, 1166, 5466>>, -54),
          Double(FALSE, <<7048, 2004, 9043, 4906>>, -98)>>,
        <<Double(FALSE, <<416, 5270, 6619, 6614>>, -53),
          Double(FALSE, <<2608, 45, 6840, 5561>>, -54),
          Double(FALSE, <<2396, 5824, 6344, 6820>>, -98)>>,
        <<Double(FALSE, <<1584, 8061, 4775, 6579>>, -53),
          Double(FALSE, <<1920, 2024, 7610, 5657>>, -54),
          Double(FALSE, <<317, 8934, 3239, 7006>>, -99)>>,
        <<Double(FALSE, <<2752, 852, 2932, 6544>>, -53),
          Double(FALSE, <<7216, 77, 3532, 5754>>, -54),
          Double(TRUE, <<6629, 5257, 4901, 8769>>, -97)>>,
        <<Double(FALSE, <<3920, 3643, 1088, 6509>>, -53),
          Double(FALSE, <<144, 9639, 4660, 5851>>, -54),
          Double(TRUE, <<3716, 3762, 225, 8480>>, -97)>>,
        <<Double(FALSE, <<5088, 6434, 9244, 6473>>, -53),
          Double(FALSE, <<9152, 5172, 1053, 5949>>, -54),
          Double(FALSE, <<9769, 1779, 6397, 8653>>, -97)>>,
        <<Double(FALSE, <<6256, 9225, 7400, 6438>>, -53),
          Double(FALSE, <<1712, 373, 2767, 6047>>, -54),
          Double(FALSE, <<3615, 9597, 9616, 8916>>, -98)>>,
        <<Double(FALSE, <<7424, 2016, 5557, 6403>>, -53),
          Double(FALSE, <<5456, 8363, 9859, 6145>>, -54),
          Double(TRUE, <<732, 5600, 6245, 7330>>, -99)>>>>]

\* the library's table __exp_data: 128 / ln(2), the constant that rounds to
\* an integer, -ln(2) / 128 in two doubles, the coefficients C2..C5, and for
\* each j in 0..127 <<the tail of 2^(j/128), 2^(j/128)>>
ExpData ==
    [invln2N   |-> Double(FALSE, <<6798, 4855, 3208, 6497>>, -45),
     shift     |-> Double(FALSE, <<5744, 4105, 3994, 6755>>, 0),
     negln2hiN |-> Double(TRUE, <<528, 6815, 3147, 6243>>, -60),
     negln2loN |-> Double(TRUE, <<9082, 940, 5433, 8153>>, -99),
     poly      |-> <<Double(FALSE, <<413, 5474, 1992, 9007>>, -54),
                    Double(FALSE, <<380, 316, 7995, 6004>>, -55),
                    Double(FALSE, <<7089, 4590, 8015, 6004>>, -57),
                    Double(FALSE, <<1799, 5505, 8410, 4803>>, -59)>>,
     tab       |-> <<
        <<Double(FALSE, <<>>, 0),
          Double(FALSE, <<496, 2737, 5996, 4503>>, -52)>>,
        <<Double(FALSE, <<2398, 481, 353, 7665>>, -106),
          Double(FALSE, <<8773, 2799, 537, 4528>>, -52)>>,
        <<Double(TRUE, <<4157, 5618, 7119, 4890>>, -108),
          Double(FALSE, <<5265, 1197, 6406, 4552>>, -52)>>,
        <<Double(TRUE, <<689, 8370, 4779, 4607>>, -106),
          Double(FALSE, <<421, 30, 3610, 4577>>, -52)>>,
        <<Double(FALSE, <<5251, 7305, 5498, 8112>>, -107),
          Double(FALSE, <<9652, 1788, 2156, 4602>>, -52)>>,
        <<Double(TRUE, <<1082, 2588, 8741, 7826>>, -107),
          Double(FALSE, <<4590, 9359, 2051, 4627>>, -52)>>,
        <<Double(FALSE, <<4785, 4939, 5156, 4775>>, -109),
          Double(FALSE, <<4456, 6022, 3304, 4652>>, -52)>>,
        <<Double(FALSE, <<4633, 536, 8008, 4683>>, -106),
          Double(FALSE, <<7555, 5456, 5921, 4677>>, -52)>>,
        <<Double(FALSE, <<1629, 8849, 9637, 6643>>, -106),
          Double(FALSE, <<2879, 1741, 9910, 4702>>, -52)>>,
        <<Double(FALSE, <<2412, 4121, 3750, 8643>>, -107),
          Double(FALSE, <<1831, 9357, 5277, 4728>>, -52)>>,
        <<Double(FALSE, <<705, 8577, 4203, 8653>>, -112),
          Double(FALSE, <<66, 3190, 2032, 4754>>, -52)>>,
        <<Double(TRUE, <<3723, 7560, 8735, 7321>>, -109),
          Double(FALSE, <<9451, 8531, 180, 4780>>, -52)>>,
        <<Double(TRUE, <<2446, 600, 8854, 6005>>, -106),
          Double(FALSE, <<145, 1084, 9731, 4805>>, -52)>>,
        <<Double(TRUE, <<1605, 6689, 3659, 4645>>, -110),
          Double(FALSE, <<2796, 6958, 690, 4832>>, -52)>>,
        <<Double(TRUE, <<6102, 8292, 2298, 5006>>, -106),
          Double(FALSE, <<864, 2680, 3067, 4858>>, -52)>>,
        <<Double(FALSE, <<9999, 5354, 5754, 4736>>, -107),
          Double(FALSE, <<3057, 5190, 6868, 4884>>, -52)>>,
        <<Double(TRUE, <<3352, 7235, 3805, 4533>>, -107),
          Double(FALSE, <<5899, 1847, 2102, 4911>>, -52)>>,
        <<Double(TRUE, <<7645, 7126, 8413, 8760>>, -107),
          Double(FALSE, <<6410, 430, 8776, 4937>>, -52)>>,
        <<Double(FALSE, <<5695, 1784, 598, 7751>>, -107),
          Double(FALSE, <<4917, 9140, 6897, 4964>>, -52)>>,
        <<Double(TRUE, <<5798, 664, 7155, 6431>>, -106),
          Double(FALSE, <<7988, 6602, 6475, 4991>>, -52)>>,
        <<Double(FALSE, <<4912, 3955, 8960, 7578>>, -106),
          Double(FALSE, <<1482, 1870, 7517, 5018>>, -52)>>,
        <<Double(TRUE, <<6237, 2436, 2732, 8980>>, -107),
          Double(FALSE, <<3741, 4424, 30, 5046>>, -52)>>,
        <<Double(FALSE, <<4157, 981, 6755, 7440>>, -107),
          Double(FALSE, <<8886, 4178, 4023, 5073>>, -52)>>,
        <<Double(FALSE, <<9021, 8852, 7644, 4637>>, -107),
          Double(FALSE, <<262, 1481, 9504, 5100>>, -52)>>,
        <<Double(FALSE, <<5748, 8498, 6705, 6349>>, -106),
          Double(FALSE, <<3992, 7114, 6480, 5128>>, -52)>>,
        <<Double(FALSE, <<8141, 427, 3857, 6577>>, -107),
          Double(FALSE, <<2671, 2301, 4961, 5156>>, -52)>>,
        <<Double(FALSE, <<4146, 8876, 8521, 4581>>, -107),
          Double(FALSE, <<9181, 8704, 4953, 5184>>, -52)>>,
        <<Double(TRUE, <<4942, 7249, 2889, 6395>>, -106),
          Double(FALSE, <<641, 8432, 6466, 5212>>, -52)>>,
        <<Double(FALSE, <<4273, 4984, 971, 5339>>, -107),
          Double(FALSE, <<2481, 4035, 9508, 5240>>, -52)>>,
        <<Double(TRUE, <<7770, 7178, 7243, 8199>>, -112),
          Double(FALSE, <<2656, 8515, 4086, 5269>>, -52)>>,
        <<Double(FALSE, <<5668, 6985, 8577, 7660>>, -107),
          Double(FALSE, <<5979, 5323, 210, 5298>>, -52)>>,
        <<Double(FALSE, <<1535, 1113, 8689, 8466>>, -109),
          Double(FALSE, <<8598, 8364, 7887, 5326>>, -52)>>,
        <<Double(FALSE, <<8774, 6743, 1907, 5433>>, -107),
          Double(FALSE, <<2597, 1999, 7127, 5355>>, -52)>>,
        <<Double(FALSE, <<7724, 5298, 253, 6265>>, -107),
          Double(FALSE, <<737, 1045, 7937, 5384>>, -52)>>,
        <<Double(FALSE, <<7450, 3507, 9627, 8968>>, -107),
          Double(FALSE, <<1327, 781, 326, 5414>>, -52)>>,
        <<Double(TRUE, <<964, 3796, 2206, 6372>>, -107),
          Double(FALSE, <<3233, 6949, 4302, 5443>>, -52)>>,
        <<Double(TRUE, <<4232, 7598, 9347, 5148>>, -106),
          Double(FALSE, <<1019, 5757, 9875, 5472>>, -52)>>,
        <<Double(TRUE, <<5150, 935, 6366, 7045>>, -106),
          Double(FALSE, <<230, 3880, 7053, 5502>>, -52)>>,
        <<Double(TRUE, <<9762, 1659, 8700, 5015>>, -108),
          Double(FALSE, <<2807, 8464, 5844, 5532>>, -52)>>,
        <<Double(TRUE, <<2213, 9927, 4725, 7064>>, -106),
          Double(FALSE, <<2645, 7129, 6258, 5562>>, -52)>>,
        <<Double(FALSE, <<2621, 195, 1089, 6086>>, -107),
          Double(FALSE, <<1282, 7970, 8303, 5592>>, -52)>>,
        <<Double(TRUE, <<1658, 3313, 2301, 5368>>, -106),
          Double(FALSE, <<3740, 9560, 1988, 5623>>, -52)>>,
        <<Double(TRUE, <<9707, 7271, 6332, 6939>>, -110),
          Double(FALSE, <<4490, 954, 7323, 5653>>, -52)>>,
        <<Double(TRUE, <<8219, 1232, 3453, 7930>>, -108),
          Double(FALSE, <<3575, 1690, 4315, 5684>>, -52)>>,
        <<Double(FALSE, <<2209, 3927, 8957, 5457>>, -111),
          Double(FALSE, <<2861, 1792, 2974, 5715>>, -52)>>,
        <<Double(FALSE, <<8047, 1864, 6393, 6304>>, -106),
          Double(FALSE, <<2439, 1773, 3309, 5746>>, -52)>>,
        <<Double(FALSE, <<2857, 901, 5197, 8669>>, -109),
          Double(FALSE, <<7168, 2637, 5329, 5777>>, -52)>>,
        <<Double(FALSE, <<3680, 6589, 109, 5629>>, -106),
          Double(FALSE, <<3358, 5884, 9043, 5808>>, -52)>>,
        <<Double(FALSE, <<6912, 7067, 6670, 6351>>, -108),
          Double(FALSE, <<5607, 3508, 4461, 5840>>, -52)>>,
        <<Double(FALSE, <<5159, 9173, 7260, 5380>>, -106),
          Double(FALSE, <<3773, 8005, 1591, 5872>>, -52)>>,
        <<Double(TRUE, <<8014, 4468, 6753, 8888>>, -107),
          Double(FALSE, <<103, 2372, 444, 5904>>, -52)>>,
        <<Double(TRUE, <<2857, 1970, 8959, 6718>>, -107),
          Double(FALSE, <<6498, 110, 1028, 5936>>, -52)>>,
        <<Double(TRUE, <<7919, 9783, 3445, 7000>>, -108),
          Double(FALSE, <<1938, 5231, 3352, 5968>>, -52)>>,
        <<Double(TRUE, <<2822, 1215, 5453, 6212>>, -107),
          Double(FALSE, <<47, 2254, 7427, 6000>>, -52)>>,
        <<Double(FALSE, <<46, 6790, 3205, 5406>>, -106),
          Double(FALSE, <<6810, 6212, 3261, 6033>>, -52)>>,
        <<Double(FALSE, <<7637, 1523, 7369, 7767>>, -108),
          Double(FALSE, <<8445, 2656, 865, 6066>>, -52)>>,
        <<Double(FALSE, <<9257, 3966, 4214, 4613>>, -106),
          Double(FALSE, <<9417, 7654, 247, 6099>>, -52)>>,
        <<Double(FALSE, <<7514, 2265, 8749, 5848>>, -112),
          Double(FALSE, <<615, 7797, 1418, 6132>>, -52)>>,
        <<Double(FALSE, <<3093, 8610, 4636, 5685>>, -106),
          Double(FALSE, <<7672, 197, 4388, 6165>>, -52)>>,
        <<Double(TRUE, <<8527, 6405, 3074, 8132>>, -107),
          Double(FALSE, <<9449, 2498, 9165, 6198>>, -52)>>,
        <<Double(TRUE, <<984, 5501, 2215, 7938>>, -107),
          Double(FALSE, <<6661, 2872, 5760, 6232>>, -52)>>,
        <<Double(TRUE, <<510, 9675, 2766, 5721>>, -107),
          Double(FALSE, <<672, 24, 4183, 6266>>, -52)>>,
        <<Double(TRUE, <<1368, 5952, 4751, 5575>>, -106),
          Double(FALSE, <<2437, 3194, 4443, 6300>>, -52)>>,
        <<Double(FALSE, <<7508, 5057, 2489, 6492>>, -110),
          Double(FALSE, <<1603, 2163, 6551, 6334>>, -52)>>,
        <<Double(TRUE, <<5496, 4667, 8668, 5545>>, -106),
          Double(FALSE, <<5773, 7252, 516, 6369>>, -52)>>,
        <<Double(TRUE, <<8754, 149, 8859, 7338>>, -109),
          Double(FALSE, <<9919, 9328, 6349, 6403>>, -52)>>,
        <<Double(TRUE, <<1806, 4654, 3038, 5462>>, -109),
          Double(FALSE, <<5967, 9806, 4060, 6438>>, -52)>>,
        <<Double(TRUE, <<7377, 248, 7556, 4745>>, -107),
          Double(FALSE, <<2532, 650, 3660, 6473>>, -52)>>,
        <<Double(TRUE, <<9935, 1808, 9159, 6789>>, -108),
          Double(FALSE, <<4820, 4378, 5157, 6508>>, -52)>>,
        <<Double(TRUE, <<2176, 1299, 4543, 6454>>, -107),
          Double(FALSE, <<4692, 4066, 8563, 6543>>, -52)>>,
        <<Double(TRUE, <<9690, 3563, 1525, 6220>>, -107),
          Double(FALSE, <<889, 3349, 3888, 6579>>, -52)>>,
        <<Double(FALSE, <<7251, 9736, 9968, 4675>>, -106),
          Double(FALSE, <<9423, 6423, 1142, 6615>>, -52)>>,
        <<Double(TRUE, <<5133, 5425, 7479, 7655>>, -108),
          Double(FALSE, <<4135, 8054, 336, 6651>>, -52)>>,
        <<Double(FALSE, <<9755, 2117, 723, 5890>>, -106),
          Double(FALSE, <<7410, 3572, 1481, 6687>>, -52)>>,
        <<Double(FALSE, <<9109, 9404, 3289, 6170>>, -109),
          Double(FALSE, <<1074, 8883, 4586, 6723>>, -52)>>,
        <<Double(TRUE, <<8146, 2199, 2677, 6933>>, -107),
          Double(FALSE, <<7442, 464, 9664, 6759>>, -52)>>,
        <<Double(TRUE, <<6628, 965, 2590, 5464>>, -106),
          Double(FALSE, <<547, 5375, 6723, 6796>>, -52)>>,
        <<Double(TRUE, <<6750, 3084, 5216, 4607>>, -107),
          Double(FALSE, <<7533, 1252, 5776, 6833>>, -52)>>,
        <<Double(TRUE, <<7454, 2805, 9432, 5862>>, -106),
          Double(FALSE, <<221, 6321, 6832, 6870>>, -52)>>,
        <<Double(FALSE, <<6720, 4828, 2590, 4694>>, -106),
          Double(FALSE, <<6841, 9390, 9903, 6907>>, -52)>>,
        <<Double(FALSE, <<6356, 6974, 1900, 8364>>, -107),
          Double(FALSE, <<3947, 9863, 5000, 6945>>, -52)>>,
        <<Double(TRUE, <<5103, 7425, 5005, 6111>>, -109),
          Double(FALSE, <<8492, 7734, 2134, 6983>>, -52)>>,
        <<Double(FALSE, <<8244, 8145, 8683, 7870>>, -108),
          Double(FALSE, <<86, 3598, 1316, 7021>>, -52)>>,
        <<Double(TRUE, <<5523, 991, 561, 5358>>, -106),
          Double(FALSE, <<3430, 8646, 2556, 7059>>, -52)>>,
        <<Double(TRUE, <<4265, 280, 3844, 8349>>, -110),
          Double(FALSE, <<917, 4677, 5867, 7097>>, -52)>>,
        <<Double(TRUE, <<6649, 9158, 8537, 7920>>, -109),
          Double(FALSE, <<5423, 4094, 1259, 7136>>, -52)>>,
        <<Double(TRUE, <<1674, 914, 5052, 5140>>, -106),
          Double(FALSE, <<3264, 9913, 8743, 7174>>, -52)>>,
        <<Double(TRUE, <<5035, 3002, 5433, 6133>>, -107),
          Double(FALSE, <<7338, 5761, 8332, 7213>>, -52)>>,
        <<Double(FALSE, <<6327, 167, 5722, 4978>>, -108),
          Double(FALSE, <<448, 5885, 36, 7253>>, -52)>>,
        <<Double(FALSE, <<7259, 7526, 9031, 8393>>, -109),
          Double(FALSE, <<8803, 5148, 3867, 7292>>, -52)>>,
        <<Double(TRUE, <<2819, 1174, 5460, 6690>>, -107),
          Double(FALSE, <<5701, 9042, 9836, 7331>>, -52)>>,
        <<Double(FALSE, <<5029, 4563, 1900, 7631>>, -107),
          Double(FALSE, <<5395, 3682, 7956, 7371>>, -52)>>,
        <<Double(TRUE, <<1365, 7900, 5844, 4991>>, -106),
          Double(FALSE, <<7149, 5815, 8237, 7411>>, -52)>>,
        <<Double(FALSE, <<322, 8569, 1130, 4728>>, -106),
          Double(FALSE, <<9464, 2822, 692, 7452>>, -52)>>,
        <<Double(FALSE, <<6291, 4386, 5170, 5745>>, -107),
          Double(FALSE, <<4511, 2722, 5332, 7492>>, -52)>>,
        <<Double(TRUE, <<7636, 8478, 6236, 5312>>, -107),
          Double(FALSE, <<2730, 4173, 2169, 7533>>, -52)>>,
        <<Double(FALSE, <<9303, 1411, 4002, 7910>>, -107),
          Double(FALSE, <<7629, 6478, 1215, 7574>>, -52)>>,
        <<Double(TRUE, <<7082, 9317, 4549, 4639>>, -106),
          Double(FALSE, <<774, 9590, 2482, 7615>>, -52)>>,
        <<Double(TRUE, <<6554, 4354, 3127, 6126>>, -110),
          Double(FALSE, <<6955, 4109, 5983, 7656>>, -52)>>,
        <<Double(TRUE, <<96, 9822, 9806, 4683>>, -106),
          Double(FALSE, <<9562, 1294, 1729, 7698>>, -52)>>,
        <<Double(TRUE, <<9540, 5231, 7438, 6991>>, -109),
          Double(FALSE, <<6135, 3061, 9732, 7739>>, -52)>>,
        <<Double(TRUE, <<5397, 3506, 7308, 5047>>, -106),
          Double(FALSE, <<4122, 1987, 5, 7782>>, -52)>>,
        <<Double(FALSE, <<9501, 9131, 7985, 5910>>, -108),
          Double(FALSE, <<6818, 1315, 2560, 7824>>, -52)>>,
        <<Double(TRUE, <<3452, 4243, 9645, 4993>>, -106),
          Double(FALSE, <<9513, 4958, 7409, 7866>>, -52)>>,
        <<Double(FALSE, <<5747, 7764, 7189, 5469>>, -108),
          Double(FALSE, <<5820, 7502, 4565, 7909>>, -52)>>,
        <<Double(FALSE, <<8644, 4317, 547, 8694>>, -107),
          Double(FALSE, <<4218, 4208, 4041, 7952>>, -52)>>,
        <<Double(FALSE, <<9196, 2620, 4078, 5876>>, -107),
          Double(FALSE, <<4779, 1018, 5849, 7995>>, -52)>>,
        <<Double(FALSE, <<6007, 511, 1770, 5574>>, -109),
          Double(FALSE, <<6101, 4558, 1, 8039>>, -52)>>,
        <<Double(FALSE, <<2232, 859, 7630, 6591>>, -109),
          Double(FALSE, <<2441, 2142, 6511, 8082>>, -52)>>,
        <<Double(TRUE, <<9874, 2244, 4375, 4655>>, -107),
          Double(FALSE, <<1050, 1774, 5391, 8126>>, -52)>>,
        <<Double(TRUE, <<4511, 9533, 3402, 8916>>, -107),
          Double(FALSE, <<9708, 2153, 6654, 8170>>, -52)>>,
        <<Double(TRUE, <<6233, 5007, 6415, 4518>>, -106),
          Double(FALSE, <<4466, 2680, 313, 8215>>, -52)>>,
        <<Double(FALSE, <<8487, 4920, 2939, 5809>>, -108),
          Double(FALSE, <<7591, 3454, 6381, 8259>>, -52)>>,
        <<Double(TRUE, <<6031, 1272, 6579, 5226>>, -107),
          Double(FALSE, <<5720, 5284, 4871, 8304>>, -52)>>,
        <<Double(FALSE, <<6204, 3143, 5525, 8543>>, -107),
          Double(FALSE, <<8213, 9687, 5796, 8349>>, -52)>>,
        <<Double(FALSE, <<7627, 4648, 6563, 5693>>, -107),
          Double(FALSE, <<5728, 8896, 9170, 8394>>, -52)>>,
        <<Double(TRUE, <<1759, 2068, 8874, 5300>>, -107),
          Double(FALSE, <<8991, 5860, 5006, 8440>>, -52)>>,
        <<Double(TRUE, <<5081, 6959, 8494, 7083>>, -107),
          Double(FALSE, <<7785, 4252, 3317, 8486>>, -52)>>,
        <<Double(FALSE, <<6387, 4478, 6294, 5829>>, -108),
          Double(FALSE, <<150, 8470, 4116, 8532>>, -52)>>,
        <<Double(FALSE, <<9137, 2972, 6433, 5565>>, -107),
          Double(FALSE, <<1795, 3640, 7418, 8578>>, -52)>>,
        <<Double(TRUE, <<9680, 7250, 3833, 8997>>, -107),
          Double(FALSE, <<5722, 5624, 3235, 8625>>, -52)>>,
        <<Double(TRUE, <<5437, 7684, 7459, 8354>>, -107),
          Double(FALSE, <<2065, 1022, 1582, 8672>>, -52)>>,
        <<Double(FALSE, <<6008, 2425, 4626, 8659>>, -107),
          Double(FALSE, <<8151, 7173, 2471, 8719>>, -52)>>,
        <<Double(FALSE, <<210, 7206, 4174, 5677>>, -107),
          Double(FALSE, <<8775, 2165, 5918, 8766>>, -52)>>,
        <<Double(FALSE, <<2574, 4254, 272, 7429>>, -107),
          Double(FALSE, <<6688, 4834, 1935, 8814>>, -52)>>,
        <<Double(TRUE, <<4637, 3389, 5251, 8505>>, -107),
          Double(FALSE, <<3316, 4770, 537, 8862>>, -52)>>,
        <<Double(FALSE, <<1853, 6182, 8122, 6624>>, -108),
          Double(FALSE, <<9688, 2320, 1738, 8910>>, -52)>>,
        <<Double(FALSE, <<2329, 4119, 3521, 5354>>, -110),
          Double(FALSE, <<7601, 8596, 5551, 8958>>, -52)>>>>]

\* the floating-point instructions of pow, each <<result, operation, operands>>
\* over named doubles: log, the logarithm of 2^k * z in two doubles y and
\* tail, with z in an interval around c and log1p(z / c - 1) a polynomial in
\* r; scale, the exponent half * (y + tail) as ehi + elo and its reduction
\* to k * ln(2) / 128 + rr; exp, 2^(k/128) * exp(rr)
PowCode ==
    [log   |-> << <<"r",    "fms", "z", "invc", "one">>,
                  <<"t1",   "fma", "kd", "ln2hi", "logc">>,
                  <<"lo1",  "fma", "kd", "ln2lo", "logctail">>,
                  <<"ar",   "mul", "A0", "r">>,
                  <<"q1",   "fma", "r", "A2", "A1">>,
                  <<"q2",   "fma", "r", "A4", "A3">>,
                  <<"t2",   "add", "r", "t1">>,
                  <<"ar2",  "mul", "r", "ar">>,
                  <<"d1",   "sub", "t1", "t2">>,
                  <<"ar3",  "mul", "r", "ar2">>,
                  <<"lo3",  "fms", "ar", "r", "ar2">>,
                  <<"lo2",  "add", "d1", "r">>,
                  <<"q3",   "fma", "r", "A6", "A5">>,
                  <<"hi",   "add", "t2", "ar2">>,
                  <<"d2",   "sub", "t2", "hi">>,
                  <<"q4",   "fma", "q3", "ar2", "q2">>,
                  <<"lo4",  "add", "d2", "ar2">>,
                  <<"q5",   "fma", "ar2", "q4", "q1">>,
                  <<"s1",   "add", "lo1", "lo2">>,
                  <<"s2",   "add", "s1", "lo3">>,
                  <<"s3",   "add", "s2", "lo4">>,
                  <<"lo",   "fma", "ar3", "q5", "s3">>,
                  <<"y",    "add", "hi", "lo">>,
                  <<"d3",   "sub", "hi", "y">>,
                  <<"tail", "add", "d3", "lo">> >>,
     scale |-> << <<"ehi",  "mul", "half", "y">>,
                  <<"e1",   "fms", "y", "half", "ehi">>,
                  <<"elo",  "fma", "half", "tail", "e1">>,
                  <<"kds",  "fma", "ehi", "invln2N", "shift">>,
                  <<"kd",   "sub", "kds", "shift">>,
                  <<"x1",   "fma", "kd", "negln2hiN", "ehi">>,
                  <<"x2",   "fma", "kd", "negln2loN", "x1">>,
                  <<"rr",   "add", "elo", "x2">>,
                  <<"near", "add", "one", "ehi">> >>,
     exp   |-> << <<"p1",   "fma", "rr", "C3", "C2">>,
                  <<"p2",   "add", "rr", "etail">>,
                  <<"r2",   "mul", "rr", "rr">>,
                  <<"p3",   "fma", "rr", "C5", "C4">>,
                  <<"p4",   "fma", "p1", "r2", "p2">>,
                  <<"r4",   "mul", "r2", "r2">>,
                  <<"tmp",  "fma", "p3", "r4", "p4">>,
                  <<"pow",  "fma", "tmp", "escale", "escale">> >>]

\* the named doubles after the instructions lo..hi of code, each carried
\* out on the doubles the ones before it have left: those of the first half
\* of them, then those of the other half.  On no doubles nothing is done.
RECURSIVE Run(_, _, _, _)
Run(env, code, lo, hi) ==
    LET Result(op, a, b, c) ==
            IF op = "add" THEN DoubleAdd(a, b)
            ELSE IF op = "sub" THEN DoubleSub(a, b)
            ELSE IF op = "mul" THEN DoubleMul(a, b)
            ELSE IF op = "fma" THEN DoubleFma(a, b, c)
            ELSE DoubleFma(a, b, [c EXCEPT !.neg = ~c.neg])
        Done(ins) ==
            (ins[1] :> Result(ins[2], env[ins[3]], env[ins[4]], env[ins[Len(ins)]]))
            @@ env
    IN  IF DOMAIN env = {} \/ lo > hi THEN env
        ELSE IF lo = hi THEN Done(code[lo])
        ELSE Run(Run(env, code, lo, (lo + hi) \div 2), code, ((lo + hi) \div 2) + 1, hi)

\* pow(x, 0.5) for x > 0.  x is 2^k * z with z in [OFF, 2 * OFF), where
\* OFF = 0x3fe6955500000000 as a double; tmp is the significand of x less
\* the fraction bits of OFF, the interval i its 7 bits from the 45th on.
\* The exponent y * log(x) is n * ln(2) / 128 + rr with n the integer that
\* adding the constant shift rounds to; 2^(n/128) is the entry n mod 128 of
\* the table and a power of 2.  An exponent below 2^-54 gives 1.0 + ehi.
PowHalf(x) ==
    LET Consts(L, E) ==
            [one |-> Double(FALSE, Two52, -52), half |-> Double(FALSE, Two52, -53),
             ln2hi |-> L.ln2hi, ln2lo |-> L.ln2lo,
             A0 |-> L.poly[1], A1 |-> L.poly[2], A2 |-> L.poly[3], A3 |-> L.poly[4],
             A4 |-> L.poly[5], A5 |-> L.poly[6], A6 |-> L.poly[7],
             invln2N |-> E.invln2N, shift |-> E.shift,
             negln2hiN |-> E.negln2hiN, negln2loN |-> E.negln2loN,
             C2 |-> E.poly[1], C3 |-> E.poly[2], C4 |-> E.poly[3], C5 |-> E.poly[4]]
        Tabled(row, n) ==
            [etail  |-> row[1],
             escale |-> Double(FALSE, row[2].m, row[2].e + (n \div 128))]
        Powered(env, E, code, n) ==
            Run(Tabled(E.tab[(n % 128) + 1], n) @@ env, code.exp, 1, Len(code.exp)).pow
        Counted(env, E, code, kn) ==
            Powered(env, E, code,
                    IF env.kd.neg THEN 0 - (Limb(kn, 1) + LimbBase * Limb(kn, 2))
                    ELSE Limb(kn, 1) + LimbBase * Limb(kn, 2))
        Scaled(env, E, code) ==
            IF env.ehi.m = <<>> \/ env.ehi.e + 52 < 0 - 54 THEN env.near
            ELSE Counted(env, E, code, IF env.kd.m = <<>> THEN <<>>
                                       ELSE NShr(env.kd.m, 0 - env.kd.e))
        Reduced(row, k, L, E, code) ==
            Scaled(Run([z        |-> Double(FALSE, x.m, x.e - k),
                        kd       |-> RoundScaled(k < 0, NNorm(<<IF k < 0 THEN 0 - k ELSE k>>), 0),
                        invc     |-> row[1],
                        logc     |-> row[2],
                        logctail |-> row[3]] @@ Consts(L, E),
                       code.log \o code.scale, 1, Len(code.log) + Len(code.scale)),
                   E, code)
        Indexed(tmp, L, E, code) ==
            Reduced(L.tab[(Limb(NShr(tmp, 45), 1) % 128) + 1],
                    IF NLess(tmp, Two52) THEN x.e + 52 ELSE x.e + 53, L, E, code)
    IN  Indexed(NSub(x.m, <<2720, 6502, 421, 1853>>), PowLogData, ExpData, PowCode)

-----------------------------------------------------------------------------
(* str() of a float                                                        *)

\* floor(log10(p / q)) for p, q > 0: the difference of the lengths, or 1 less
Log10(p, q) ==
    LET Adjusted(g) ==
            IF g >= 0
            THEN (IF NLess(p, NMulPow10(q, g)) THEN g - 1 ELSE g)
            ELSE (IF NLess(NMulPow10(p, 0 - g), q) THEN g - 1 ELSE g)
    IN  Adjusted(Len(DigitsOfN(p)) - Len(DigitsOfN(q)))

\* floor(a / 10^k)
NDivPow10(a, k) ==
    IF Len(a) <= k \div 4 THEN <<>>
    ELSE NDivSmall(SubSeq(a, k \div 4 + 1, Len(a)), 10 ^ (k % 4))

\* c * 2^s in units of 10^(k-16): the numerator before the divisions
UnitsNum(c, s, k) == NMulPow10(NShl(c, Max(s, 0)), Max(16 - k, 0))

\* its floor, and whether the floor is the exact value
Units(c, s, k) ==
    LET Compared(num, f) ==
            [floor |-> f,
             exact |-> NShl(NMulPow10(f, Max(k - 16, 0)), Max(0 - s, 0)) = num]
        Floored(num) ==
            Compared(num, NDivPow10(NShr(num, Max(0 - s, 0)), Max(k - 16, 0)))
    IN  Floored(UnitsNum(c, s, k))

\* repr(x) looks for the shortest decimal that reads back as x = m * 2^e,
\* in units of the 17th significant digit of x.  A decimal reads back as x
\* when it lies within half the gap to the next double: above x the gap is
\* 2^e, below x it is half of that when m is a power of two; the ends of the
\* interval belong to it when m is even.  The least and the greatest such
\* decimal:
ReadsBackMin(x, k) ==
    LET Least(u) == IF u.exact /\ ~NOdd(x.m) THEN u.floor ELSE NAdd(u.floor, <<1>>)
    IN  IF x.m = Two52
        THEN Least(Units(NSub(NMulSmall(x.m, 4), <<1>>), x.e - 2, k))
        ELSE Least(Units(NSub(NMulSmall(x.m, 2), <<1>>), x.e - 1, k))

ReadsBackMax(x, k) ==
    LET Greatest(u) == IF u.exact /\ NOdd(x.m) THEN NSub(u.floor, <<1>>) ELSE u.floor
    IN  Greatest(Units(NAdd(NMulSmall(x.m, 2), <<1>>), x.e - 1, k))

\* the first n of 17 digits (least significant first), the others 0
Prefix(dd, n) == [i \in 1..17 |-> IF i <= 17 - n THEN 0 ELSE dd[i]]

\* the shortest digits: the decimal chosen, in units of the 17th digit; of
\* the decimals of n digits below and above x that read back, the nearer,
\* found by comparing 2 * x with their sum
RECURSIVE Shortest(_, _, _, _, _, _)
Shortest(x, k, dd, cmin, cmax, n) ==
    LET Nearer(lo, hi, sum, x2) ==
            IF NLess(x2.floor, sum) THEN lo
            ELSE IF NLess(sum, x2.floor) \/ ~x2.exact THEN hi
            ELSE IF dd[18 - n] % 2 = 0 THEN lo ELSE hi
        Between(lo, hi, oklo, okhi) ==
            IF n = 17 \/ (oklo /\ okhi)
            THEN Nearer(lo, hi, NAdd(lo, hi), Units(x.m, x.e + 1, k))
            ELSE IF oklo THEN lo
            ELSE IF okhi THEN hi
            ELSE Shortest(x, k, dd, cmin, cmax, n + 1)
        Bounded(lo, hi) == Between(lo, hi, ~NLess(lo, cmin), ~NLess(cmax, hi))
        Above(lo) == Bounded(lo, NAdd(lo, NMulPow10(<<1>>, 17 - n)))
    IN  Above(NOfDigits(Prefix(dd, n)))

\* the decimal digits of a natural as characters, most significant first
CharsOfN(a) ==
    LET Reversed(d) == [i \in 1..Len(d) |-> CharOf(d[Len(d) + 1 - i])]
    IN  Reversed(DigitsOfN(a))

RECURSIVE StripZeros(_)
StripZeros(cs) ==
    IF Len(cs) > 1 /\ cs[Len(cs)] = "0" THEN StripZeros(SubSeq(cs, 1, Len(cs) - 1)) ELSE cs

ZeroChars(n) == [i \in 1..n |-> "0"]

\* repr(x) of a float, which str(x) returns
StrDouble(x) ==
    LET Exponent(ds, dp, ex) ==
            <<ds[1]>>
            \o (IF Len(ds) > 1 THEN <<".">> \o Tail(ds) ELSE <<>>)
            \o <<"e", IF dp - 1 < 0 THEN "-" ELSE "+">>
            \o (IF ex < 10 THEN <<"0">> ELSE <<>>)
            \o CharsOfN(<<ex>>)
        Placed(ds, dp) ==
            IF dp > 16 \/ dp < 0 - 3
            THEN Exponent(ds, dp, IF dp - 1 < 0 THEN 1 - dp ELSE dp - 1)
            ELSE IF dp <= 0 THEN <<"0", ".">> \o ZeroChars(0 - dp) \o ds
            ELSE IF dp < Len(ds)
            THEN SubSeq(ds, 1, dp) \o <<".">> \o SubSeq(ds, dp + 1, Len(ds))
            ELSE ds \o ZeroChars(dp - Len(ds)) \o <<".", "0">>
        Chosen(all, k) ==
            Placed(StripZeros(all), IF Len(all) = 18 THEN k + 2 ELSE k + 1)
        Scaled(k) ==
            Chosen(CharsOfN(Shortest(x, k, DigitsOfN(Units(x.m, x.e, k).floor),
                                     ReadsBackMin(x, k), ReadsBackMax(x, k), 1)), k)
    IN  (IF x.neg THEN <<"-">> ELSE <<>>)
        \o (IF x.m = <<>> THEN <<"0", ".", "0">>
            ELSE Scaled(Log10(IF x.e > 0 THEN NShl(x.m, x.e) ELSE x.m,
                              IF x.e < 0 THEN NShl(<<1>>, 0 - x.e) ELSE <<1>>)))

-----------------------------------------------------------------------------
(* Python's operators on the values read_register returns: an int, or the   *)
(* float of a decimal text; a result is an int or a double.                 *)

IsInt(v) == v.kind = "int"

\* v + w
Plus(v, w) ==
    IF IsInt(v) /\ IsInt(w) THEN IntAdd(v, w) ELSE DoubleAdd(ToDouble(v), ToDouble(w))

\* v - w
Minus(v, w) ==
    IF IsInt(v) /\ IsInt(w) THEN IntSub(v, w) ELSE DoubleSub(ToDouble(v), ToDouble(w))

\* v * w
Times(v, w) ==
    IF IsInt(v) /\ IsInt(w) THEN IntMul(v, w) ELSE DoubleMul(ToDouble(v), ToDouble(w))

\* v / w for w # 0: of two ints the correctly rounded quotient
TrueDiv(v, w) ==
    IF IsInt(v) /\ IsInt(w)
    THEN RoundRatio(v.neg # w.neg, NOfDigits(v.mag), NOfDigits(w.mag))
    ELSE DoubleDiv(ToDouble(v), ToDouble(w))

\* v % w for ints, w # 0: the result takes the sign of the divisor
IntMod(v, w) ==
    LET r0 == NDivMod(NOfDigits(v.mag), NOfDigits(w.mag)).r
        r  == IF r0 = <<>> \/ v.neg = w.neg THEN r0 ELSE NSub(NOfDigits(w.mag), r0)
    IN  MkInt(w.neg, DigitsOfN(r))

\* v % w for w # 0
Modulo(v, w) ==
    IF IsInt(v) /\ IsInt(w) THEN IntMod(v, w) ELSE DoubleMod(ToDouble(v), ToDouble(w))

\* abs(v)
Absolute(v) ==
    IF IsInt(v) THEN IntAbs(v) ELSE [ToDouble(v) EXCEPT !.neg = FALSE]

\* v ** 0.5 for v >= 0: float_pow gives 0.0 for a zero, and calls pow
SquareRoot(v) ==
    IF v.mag = <<>> THEN Double(FALSE, <<>>, 0) ELSE PowHalf(ToDouble(v))

\* 2 * x for a float x
Twice(x) == DoubleMul(ToDouble(MkInt(FALSE, <<2>>)), x)

\* str(v)
Str(v) == IF IsInt(v) THEN StrInt(v) ELSE StrDouble(v)

\* value < 0 (-0.0 is not)
IsNegative(v) == v.neg /\ v.mag # <<>>

IsZero(v) == v.mag = <<>>

-----------------------------------------------------------------------------
(* The register bank: the eight module-level Register objects *)

Bank == [reg |-> reg, heap |-> heap, fa |-> float_active, exc |-> "none"]

Arr(s, r) == s.heap[s.reg[r]]

Put(s, r, a) == [s EXCEPT !.heap[s.reg[r]] = a]

Read(s, r) == read_register(Arr(s, r), s.fa[r])

\* An array no register refers to any more is freed
Collect(refs, h) ==
    [i \in ArrIds |-> IF \E r \in RegNames : refs[r] = i THEN h[i] ELSE Zeros]

\* (mutant) erase() without float_active = False
EraseKeepsFloat(s, r) ==
    LET used == {s.reg[x] : x \in RegNames \ {r}}
        new  == CHOOSE i \in ArrIds \ used : \A j \in ArrIds \ used : i <= j
        refs == [s.reg EXCEPT ![r] = new]
    IN  [s EXCEPT !.reg  = refs,
                  !.heap = Collect(refs, [s.heap EXCEPT ![new] = SetSign(Zeros, "+")])]

\* r.erase(): r.reg is rebound to a new array of zeros
Erase(s, r) ==
    LET used == {s.reg[x] : x \in RegNames \ {r}}
        new  == CHOOSE i \in ArrIds \ used : \A j \in ArrIds \ used : i <= j
        refs == [s.reg EXCEPT ![r] = new]
    IN  [s EXCEPT !.reg  = refs,
                  !.heap = Collect(refs, [s.heap EXCEPT ![new] = SetSign(Zeros, "+")]),
                  !.fa[r] = FALSE]

\* r.write_register(value), text = str(value)
Write(s, r, text) ==
    LET w == write_register(Arr(s, r), s.fa[r], text, n_digits)
    IN  [s EXCEPT !.heap[s.reg[r]] = w.a, !.fa[r] = w.fa, !.exc = w.exc]

\* to.reg = from.reg
Bind(s, to, from) ==
    LET refs == [s.reg EXCEPT ![to] = s.reg[from]]
    IN  [s EXCEPT !.reg = refs, !.heap = Collect(refs, s.heap)]

\* a statement after one that raised is not executed
Then(s, t) == IF s.exc = "none" THEN t ELSE s

Raised(s, e) == [s EXCEPT !.exc = e]

\* print_result(value): n_digits - int raises TypeError once n_digits is a str
PrintResult(s) == IF n_digits[1] = "str" THEN Raised(s, "TypeError") ELSE s

-----------------------------------------------------------------------------
(* loop(): one action per key *)

SecondaryNames == {"B", "C", "D", "E", "F"}

DisplayNames == {"A", "R", "B", "C", "D", "E", "F"}

\* the keys loop() has a branch for, besides the digits.  The keys that are
\* no ASCII character are written by name: "mul" is the multiplication sign,
\* "div" the division sign, "sqrt" the root sign, "lozenge" the lozenge,
\* "down", "up" and "updown" the three arrows; each is one character.
CommandKeys ==
    {",", "_", "+", "-", "mul", "div", "sqrt", "lozenge", "*", "r", "u", "down", "up", "updown", "d", "P"}

\* pressed_key = input()
Input(tok) == pc = "input" /\ hist' = Append(hist, tok)

Commit(s) == reg' = s.reg /\ heap' = s.heap /\ float_active' = s.fa

\* previous_key = pressed_key; previous_key_backup = previous_key
UpdateContext(key) ==
    /\ previous_key' = key
    /\ previous_key_backup' = previous_key'

\* an exception nobody catches ends loop()
Crash(e) == pc' = e /\ UNCHANGED <<previous_key, previous_key_backup>>

\* `continue`: back to input() without the context update
Continue == pc' = "input" /\ UNCHANGED <<previous_key, previous_key_backup>>

\* the end of the loop body is reached unless a statement raised
EndOfBody(s, key) ==
    /\ Commit(s)
    /\ IF s.exc = "none" THEN pc' = "input" /\ UpdateContext(key) ELSE Crash(s.exc)

\* len(pressed_key) != 1: skip invalid input
SkipInvalid(tok) ==
    /\ Input(tok)
    /\ Continue
    /\ out' = "none"
    /\ UNCHANGED <<reg, heap, float_active, n_digits>>

\* (mutant) a fresh entry clears M's array in place instead of erase()
KeyDigitInPlace(k) ==
    /\ Input(k)
    /\ UNCHANGED n_digits
    /\ IF InStr(previous_key, DigitKeys \cup {","})
       THEN IF ~is_full(Arr(Bank, "M"))
            THEN /\ EndOfBody(Put(Bank, "M",
                        [shift(Arr(Bank, "M"), float_active["M"]) EXCEPT ![0] = IntOf(k)]), k)
                 /\ out' = "none"
            ELSE /\ EndOfBody(Bank, k)
                 /\ out' = "error: M.reg is full"
       ELSE /\ EndOfBody(Put([Bank EXCEPT !.fa["M"] = FALSE], "M",
                        [Zeros EXCEPT ![0] = IntOf(k)]), k)
            /\ out' = "none"

\* keys 0..9
KeyDigit(k) ==
    /\ Input(k)
    /\ UNCHANGED n_digits
    /\ IF InStr(previous_key, DigitKeys \cup {","})
       THEN IF ~is_full(Arr(Bank, "M"))
            THEN /\ EndOfBody(Put(Bank, "M",
                        [shift(Arr(Bank, "M"), float_active["M"]) EXCEPT ![0] = IntOf(k)]), k)
                 /\ out' = "none"
            ELSE /\ EndOfBody(Bank, k)
                 /\ out' = "error: M.reg is full"
       ELSE /\ EndOfBody(Put(Erase(Bank, "M"), "M",
                        [Arr(Erase(Bank, "M"), "M") EXCEPT ![0] = IntOf(k)]), k)
            /\ out' = "none"

\* key ,
KeyComma ==
    /\ Input(",")
    /\ UNCHANGED n_digits
    /\ out' = "none"
    /\ IF InStr(previous_key, DigitKeys)
       THEN EndOfBody([Bank EXCEPT !.fa["M"] = TRUE], ",")
       ELSE Commit(Bank) /\ Continue

\* key _ (sign)
KeySign ==
    /\ Input("_")
    /\ UNCHANGED n_digits
    /\ out' = "none"
    /\ EndOfBody(Put(Bank, "M", SetSign(Arr(Bank, "M"), "-")), "_")

\* read_register raises ValueError for M or for A
Unreadable == Read(Bank, "M").kind = "ValueError" \/ Read(Bank, "A").kind = "ValueError"

\* M and A both read as ints
IntOperands == Read(Bank, "M").kind = "int" /\ Read(Bank, "A").kind = "int"

\* In the branches that compute, the result of each statement is bound to a
\* name (\E x \in {e}), so that it is computed once.

\* key +
KeyAdd ==
    /\ Input("+")
    /\ UNCHANGED n_digits
    /\ out' = "none"
    /\ IF Unreadable
       THEN EndOfBody(Raised(Bank, "ValueError"), "+")
       ELSE \E text \in {Str(Plus(Read(Bank, "M"), Read(Bank, "A")))} :
            \E s1 \in {Write(Bank, "A", text)} :
                EndOfBody(s1, "+")

\* key - (operator)
KeySub ==
    /\ Input("-")
    /\ UNCHANGED n_digits
    /\ out' = "none"
    /\ IF Unreadable
       THEN EndOfBody(Raised(Bank, "ValueError"), "-")
       ELSE \E text \in {Str(Minus(Read(Bank, "M"), Read(Bank, "A")))} :
            \E s1 \in {Write(Bank, "A", text)} :
                EndOfBody(s1, "-")

\* key x: A and R are written, then the result is printed
KeyMul ==
    /\ Input("mul")
    /\ UNCHANGED n_digits
    /\ IF Unreadable
       THEN EndOfBody(Raised(Bank, "ValueError"), "mul") /\ out' = "none"
       ELSE \E text \in {Str(Times(Read(Bank, "M"), Read(Bank, "A")))} :
            \E s1 \in {Write(Bank, "A", text)} :
            \E s2 \in {Then(s1, Write(s1, "R", text))} :
            \E s3 \in {Then(s2, PrintResult(s2))} :
                /\ EndOfBody(s3, "mul")
                /\ out' = IF s3.exc = "none" THEN "result" ELSE "none"

\* key /: ZeroDivisionError is caught, and the key is then skipped; the
\* remainder goes to R when `not n_digits` (0 or the empty str)
KeyDiv ==
    /\ Input("div")
    /\ UNCHANGED n_digits
    /\ \E vm \in {Read(Bank, "M")} :
       \E va \in {Read(Bank, "A")} :
           IF Unreadable
           THEN EndOfBody(Raised(Bank, "ValueError"), "div") /\ out' = "none"
           ELSE IF IsZero(va)
           THEN Commit(Bank) /\ Continue /\ out' = "error: division by zero"
           ELSE \E text \in {Str(TrueDiv(vm, va))} :
                \E s1 \in {IF n_digits \in {<<"int", 0>>, <<"str", "">>}
                           THEN Write(Bank, "R", Str(Modulo(vm, va)))
                           ELSE Bank} :
                \E s2 \in {Then(s1, Write(s1, "A", text))} :
                \E s3 \in {Then(s2, PrintResult(s2))} :
                    /\ EndOfBody(s3, "div")
                    /\ out' = IF s3.exc = "none" THEN "result" ELSE "none"

\* key sqrt: value ** 0.5 is the C library's pow(value, 0.5), which is not
\* always the double nearest to the root (the root of 0.9999999999999999 is
\* 1.0, that of 4505799321813000 is 67125250.99999999)
KeySqrt ==
    /\ Input("sqrt")
    /\ UNCHANGED n_digits
    /\ \E vm \in {Read(Bank, "M")} :
           IF vm.kind = "ValueError"
           THEN EndOfBody(Raised(Bank, "ValueError"), "sqrt") /\ out' = "none"
           ELSE IF IsNegative(vm)
           THEN /\ Commit(Bank) /\ Continue
                /\ out' = "error: squared root of negative number"
           ELSE \E value \in {SquareRoot(vm)} :
                \E text \in {Str(value)} :
                \E text2 \in {Str(Twice(value))} :
                \E s1 \in {Write(Bank, "A", text)} :
                \E s2 \in {Then(s1, Write(s1, "M", text2))} :
                \E s3 \in {Then(s2, PrintResult(s2))} :
                    /\ EndOfBody(s3, "sqrt")
                    /\ out' = IF s3.exc = "none" THEN "result" ELSE "none"

\* exec(f'print({previous_key}.read_register())'): with an empty
\* previous_key the text is no Python statement
ExecPrint(s) ==
    IF previous_key = "" THEN Raised(s, "SyntaxError")
    ELSE IF Read(s, previous_key).kind = "ValueError" THEN Raised(s, "ValueError")
    ELSE s

\* print_result(M.read_register())
PrintM(s) ==
    IF Read(s, "M").kind = "ValueError" THEN Raised(s, "ValueError")
    ELSE PrintResult(s)

\* key lozenge (primary display)
KeyLozenge ==
    /\ Input("lozenge")
    /\ UNCHANGED n_digits
    /\ LET s1 == IF InStr(previous_key, SecondaryNames) THEN ExecPrint(Bank)
                 ELSE PrintM(Bank)
       IN  /\ EndOfBody(s1, "lozenge")
           /\ out' = IF s1.exc = "none" THEN "result" ELSE "none"

\* key * (secondary display): pressed_key != 'R' always holds here, and
\* exec('*.erase()') is no Python statement
KeyStar ==
    /\ Input("*")
    /\ UNCHANGED n_digits
    /\ LET s1 == IF InStr(previous_key, DisplayNames)
                 THEN Then(ExecPrint(Bank), Raised(Bank, "SyntaxError"))
                 ELSE PrintM(Bank)
       IN  /\ EndOfBody(s1, "*")
           /\ out' = IF s1.exc = "none" \/ (s1.exc = "SyntaxError" /\ previous_key # "")
                     THEN "result" ELSE "none"

\* key r (clear all)
KeyClear ==
    /\ Input("r")
    /\ UNCHANGED n_digits
    /\ out' = "none"
    /\ LET s1 == Erase(Bank, "M")
           s2 == Erase(s1, "A")
           s3 == Erase(s2, "R")
           s4 == Erase(s3, "B")
           s5 == Erase(s4, "C")
           s6 == Erase(s5, "D")
           s7 == Erase(s6, "E")
           s8 == Erase(s7, "F")
       IN  EndOfBody(s8, "r")

\* key u (undo): previous_key = previous_key_backup, and then the end of
\* the loop body assigns both again
KeyUndo ==
    /\ Input("u")
    /\ UNCHANGED n_digits
    /\ out' = "none"
    /\ EndOfBody(Bank, "u")

\* key down: A.reg = M.reg
KeyDown ==
    /\ Input("down")
    /\ UNCHANGED n_digits
    /\ out' = "none"
    /\ EndOfBody(Bind(Bank, "A", "M"), "down")

\* key up: exec(f'{previous_key}.reg = M.reg') when previous_key in 'BCDEF'
KeyUp ==
    /\ Input("up")
    /\ UNCHANGED n_digits
    /\ out' = "none"
    /\ IF InStr(previous_key, SecondaryNames)
       THEN IF previous_key = ""
            THEN EndOfBody(Raised(Bank, "SyntaxError"), "up")
            ELSE EndOfBody(Bind(Bank, previous_key, "M"), "up")
       ELSE EndOfBody(Bank, "up")

\* key updown: abs of A after A; after B..F the text given to exec has an
\* unbalanced parenthesis, so nothing of it runs
KeyUpDown ==
    /\ Input("updown")
    /\ UNCHANGED n_digits
    /\ out' = "none"
    /\ \E va \in {Read(Bank, "A")} :
           IF previous_key = "A"
           THEN IF va.kind = "ValueError"
                THEN EndOfBody(Raised(Bank, "ValueError"), "updown")
                ELSE \E text \in {Str(Absolute(va))} :
                     \E s1 \in {Write(Bank, "A", text)} :
                         EndOfBody(s1, "updown")
           ELSE IF InStr(previous_key, SecondaryNames)
           THEN IF va.kind = "ValueError"
                THEN EndOfBody(Raised(Bank, "ValueError"), "updown")
                ELSE EndOfBody(Raised(Bank, "SyntaxError"), "updown")
           ELSE EndOfBody(Bank, "updown")

\* key d: n_digits = input(), the next line as a str
KeyD(line) ==
    /\ pc = "input"
    /\ hist' = hist \o <<"d", line>>
    /\ n_digits' = <<"str", line>>
    /\ out' = "none"
    /\ EndOfBody(Bank, "d")

\* key P: print_registers() and breakpoint(): the debugger stops before the
\* context update and reads the next lines of the input itself
KeyP ==
    /\ Input("P")
    /\ UNCHANGED <<n_digits, previous_key, previous_key_backup>>
    /\ out' = "registers"
    /\ Commit(Bank)
    /\ pc' = "pdb"

\* a line read at the (Pdb) prompt
PdbLine(line) == pc = "pdb" /\ hist' = Append(hist, line)

\* c: the loop goes on with the context update
PdbContinue ==
    /\ PdbLine("c")
    /\ UNCHANGED n_digits
    /\ out' = "none"
    /\ EndOfBody(Bank, "P")

\* q: the debugger raises BdbQuit, which ends loop()
PdbQuit ==
    /\ PdbLine("q")
    /\ UNCHANGED n_digits
    /\ out' = "none"
    /\ EndOfBody(Raised(Bank, "BdbQuit"), "P")

\* the lines the debugger is given besides c and q: expressions, which it
\* prints, and two assignments, which it executes
PdbExpressions == {"1", "2"}

PdbPrint(line) ==
    /\ PdbLine(line)
    /\ out' = "pdb"
    /\ UNCHANGED <<reg, heap, float_active, previous_key, previous_key_backup, n_digits, pc>>

PdbSetFloatActive ==
    /\ PdbLine("A.float_active = True")
    /\ out' = "none"
    /\ Commit([Bank EXCEPT !.fa["A"] = TRUE])
    /\ UNCHANGED <<previous_key, previous_key_backup, n_digits, pc>>

PdbSetDigit ==
    /\ PdbLine("M.reg[0] = 7")
    /\ out' = "none"
    /\ Commit(Put(Bank, "M", [Arr(Bank, "M") EXCEPT ![0] = 7]))
    /\ UNCHANGED <<previous_key, previous_key_backup, n_digits, pc>>

\* any other single character: no branch of the loop takes it
KeyOther(c) ==
    /\ c \notin DigitKeys \cup CommandKeys
    /\ Input(c)
    /\ UNCHANGED n_digits
    /\ out' = "none"
    /\ EndOfBody(Bank, c)

-----------------------------------------------------------------------------
(* The state after the module is loaded *)

Init ==
    /\ reg = [r \in RegNames |->
                CASE r = "M" -> 1 [] r = "A" -> 2 [] r = "R" -> 3 [] r = "B" -> 4
                  [] r = "C" -> 5 [] r = "D" -> 6 [] r = "E" -> 7 [] r = "F" -> 8]
    /\ heap = [i \in ArrIds |-> Zeros]
    /\ float_active = [r \in RegNames |-> FALSE]
    /\ previous_key = ""
    /\ previous_key_backup = ""
    /\ n_digits = <<"int", 0>>
    /\ pc = "input"
    /\ out = "none"
    /\ hist = <<>>

-----------------------------------------------------------------------------
(* The keyboard: every key of the machine, short sequences *)

MaxKeys == 3

TypedDigits == {"0", "1", "2"}

OtherChars == {"A", "R", "B", "C", "x"}

InvalidTokens == {"", "12"}

Lines == {"", "02"}

Budget == Len(hist) < MaxKeys

Next ==
    \/ \E k \in TypedDigits : Budget /\ KeyDigit(k)
    \/ Budget /\ KeyComma
    \/ Budget /\ KeySign
    \/ Budget /\ KeyAdd
    \/ Budget /\ KeySub
    \/ Budget /\ KeyMul
    \/ Budget /\ KeyDiv
    \/ Budget /\ KeySqrt
    \/ Budget /\ KeyLozenge
    \/ Budget /\ KeyStar
    \/ Budget /\ KeyClear
    \/ Budget /\ KeyUndo
    \/ Budget /\ KeyDown
    \/ Budget /\ KeyUp
    \/ Budget /\ KeyUpDown
    \/ \E line \in Lines : Budget /\ KeyD(line)
    \/ Budget /\ KeyP
    \/ Budget /\ PdbContinue
    \/ Budget /\ PdbQuit
    \/ \E line \in PdbExpressions : Budget /\ PdbPrint(line)
    \/ Budget /\ PdbSetFloatActive
    \/ Budget /\ PdbSetDigit
    \/ \E c \in OtherChars : Budget /\ KeyOther(c)
    \/ \E tok \in InvalidTokens : Budget /\ SkipInvalid(tok)

Spec == Init /\ [][Next]_vars

-----------------------------------------------------------------------------
(* The arithmetic keys: a few digits, comma, sign, transfer and the        *)
(* operators, in longer sequences                                          *)

MaxArithKeys == 5

ArithDigits == {"0", "1", "2"}

ArithBudget == Len(hist) < MaxArithKeys

NextArith ==
    \/ \E k \in ArithDigits : ArithBudget /\ KeyDigit(k)
    \/ ArithBudget /\ KeyComma
    \/ ArithBudget /\ KeySign
    \/ ArithBudget /\ KeyMul
    \/ ArithBudget /\ KeyDiv
    \/ ArithBudget /\ KeySqrt
    \/ ArithBudget /\ KeyDown

SpecArith == Init /\ [][NextArith]_vars

-----------------------------------------------------------------------------
(* Digit entry: a digit key may be held down (it repeats), so that the 22  *)
(* digits of M fill up within a few changes of key                         *)

MaxPresses == 24

MaxRuns == 3

EntryDigits == {"0", "1", "9"}

\* the presses in h that are no repeat of a held digit key
RECURSIVE Runs(_)
Runs(h) ==
    IF Len(h) = 0 THEN 0
    ELSE IF Len(h) = 1 THEN 1
    ELSE Runs(SubSeq(h, 1, Len(h) - 1))
         + (IF h[Len(h)] = h[Len(h) - 1] /\ h[Len(h)] \in DigitKeys THEN 0 ELSE 1)

EntryBudget(tok) ==
    /\ Len(hist) < MaxPresses
    /\ \/ Runs(hist) < MaxRuns
       \/ hist # <<>> /\ tok \in DigitKeys /\ tok = hist[Len(hist)]

NextEntry ==
    \/ \E k \in EntryDigits : EntryBudget(k) /\ KeyDigit(k)
    \/ EntryBudget(",") /\ KeyComma
    \/ EntryBudget("_") /\ KeySign
    \/ EntryBudget("down") /\ KeyDown

SpecEntry == Init /\ [][NextEntry]_vars

-----------------------------------------------------------------------------
(* write_register and read_register on their own: register A in a state    *)
(* the keys can leave it in (three entered digits, a float position, a     *)
(* sign, either flag), and one write_register(value) of a signed integer   *)

MaxRWDigits == 3

RWDigits == {0, 1, 9}

RWArrays ==
    {[i \in Cells |->
        IF i < MaxRWDigits THEN d[i + 1]
        ELSE IF i = 22 THEN fp
        ELSE IF i = 23 THEN sg
        ELSE 0] :
     d \in [1..MaxRWDigits -> RWDigits], fp \in 0..2, sg \in {0, 1}}

\* the integers written: 0, one, two and three digits, and 22 digits
RWMagnitudes ==
    {<<>>, <<5>>, <<0, 1>>, <<7, 0, 3>>, [i \in 1..(REG_LEN_MAX - 2) |-> 9]}

RWValues == {MkInt(neg, mag) : neg \in BOOLEAN, mag \in RWMagnitudes}

InitRW ==
    /\ reg = [r \in RegNames |->
                CASE r = "M" -> 1 [] r = "A" -> 2 [] r = "R" -> 3 [] r = "B" -> 4
                  [] r = "C" -> 5 [] r = "D" -> 6 [] r = "E" -> 7 [] r = "F" -> 8]
    /\ \E a \in RWArrays : heap = [i \in ArrIds |-> IF i = 2 THEN a ELSE Zeros]
    /\ \E fa \in BOOLEAN : float_active = [r \in RegNames |-> r = "A" /\ fa]
    /\ previous_key = ""
    /\ previous_key_backup = ""
    /\ n_digits = <<"int", 0>>
    /\ pc = "input"
    /\ out = "none"
    /\ hist = <<>>

\* A.write_register(v); hist records the call and str(v)
WriteRegister(v) ==
    /\ pc = "input"
    /\ hist = <<>>
    /\ hist' = <<"write_register">> \o StrInt(v)
    /\ LET s1 == Write(Bank, "A", StrInt(v))
       IN  /\ Commit(s1)
           /\ pc' = IF s1.exc = "none" THEN "input" ELSE s1.exc
    /\ out' = "none"
    /\ UNCHANGED <<previous_key, previous_key_backup, n_digits>>

NextRW == \E v \in RWValues : WriteRegister(v)

SpecRW == InitRW /\ [][NextRW]_vars

-----------------------------------------------------------------------------
(* write_register of values at and beyond the capacity of 22 digits: the   *)
(* products of long entries                                                *)

MaxWriteDigits == 25

\* one magnitude of every length from 22 to MaxWriteDigits, no digit 0
WideMagnitudes ==
    {[i \in 1..n |-> (i % 9) + 1] : n \in (REG_LEN_MAX - 2)..MaxWriteDigits}

WideValues == {MkInt(neg, mag) : neg \in BOOLEAN, mag \in WideMagnitudes}

NextWide == \E v \in WideValues : WriteRegister(v)

SpecWide == InitRW /\ [][NextWide]_vars

-----------------------------------------------------------------------------
(* Sums: entries of either sign, the transfer to A, and the keys + and -   *)

MaxSumKeys == 5

SumDigits == {"0", "1"}

SumBudget == Len(hist) < MaxSumKeys

NextSum ==
    \/ \E k \in SumDigits : SumBudget /\ KeyDigit(k)
    \/ SumBudget /\ KeySign
    \/ SumBudget /\ KeyDown
    \/ SumBudget /\ KeyAdd
    \/ SumBudget /\ KeySub

SpecSum == Init /\ [][NextSum]_vars

-----------------------------------------------------------------------------
(* The register keys: entries, the register names, the transfers, the swap *)
(* and the secondary display                                               *)

MaxBankKeys == 5

BankDigits == {"1", "2"}

BankNames == {"A", "B", "R"}

BankBudget == Len(hist) < MaxBankKeys

NextBank ==
    \/ \E k \in BankDigits : BankBudget /\ KeyDigit(k)
    \/ BankBudget /\ KeyComma
    \/ BankBudget /\ KeySign
    \/ BankBudget /\ KeyDown
    \/ BankBudget /\ KeyUp
    \/ BankBudget /\ KeyUpDown
    \/ BankBudget /\ KeyStar
    \/ \E c \in BankNames : BankBudget /\ KeyOther(c)

SpecBank == Init /\ [][NextBank]_vars

-----------------------------------------------------------------------------
(* Properties *)

\* the step reads the key k at input()
Pressed(k) == pc = "input" /\ hist' = Append(hist, k)

\* the cells and the flag of register r, before and after the step
Cell(r) == heap[reg[r]]

CellAfter(r) == heap'[reg'[r]]

ReadAfter(r) == read_register(CellAfter(r), float_active'[r])

SameRegister(r) == CellAfter(r) = Cell(r) /\ float_active'[r] = float_active[r]

ReadsZero(r) ==
    /\ Cell(r) = Zeros
    /\ ~float_active[r]
    /\ Read(Bank, r) = MkInt(FALSE, <<>>)

\* keys whose branch always runs to the context update at the end of the body
PlainKeys == DigitKeys \cup {"_", "r", "down"} \cup OtherChars

\* C1: after the keys X, Y, undo (X and Y processed normally) previous_key
\* is X again, the context right after X.
C1_UndoRewinds ==
    LET n == Len(hist)
    IN  (/\ pc = "input"
         /\ n >= 3
         /\ hist[n] = "u"
         /\ hist[n - 1] \in PlainKeys
         /\ hist[n - 2] \in PlainKeys)
        => previous_key = hist[n - 2]

\* C2: a comma pressed while previous_key is no digit key changes neither
\* previous_key, previous_key_backup nor any register.
C2_CommaNoOp ==
    [][(Pressed(",") /\ previous_key \notin DigitKeys)
        => UNCHANGED <<previous_key, previous_key_backup, reg, heap, float_active>>]_vars

\* C3: right after the clear-all key every register has all cells 0 (digits,
\* float position, sign), float_active false, and reads 0.
C3_ClearAll ==
    (hist # <<>> /\ hist[Len(hist)] = "r") => \A r \in RegNames : ReadsZero(r)

\* C3 witness: clear-all pressed when M and A shared a non-zero array
C3_Witness ==
    /\ hist = <<"2", "down", "r">>
    /\ \A r \in RegNames : ReadsZero(r)

\* C4: a divide key pressed while A reads 0, or a square-root key pressed
\* while M reads a negative value, changes no register; the key reports its
\* error and the loop goes on.
C4_AbortNoMutation ==
    [][/\ (Pressed("div") /\ Read(Bank, "A").kind # "ValueError" /\ IsZero(Read(Bank, "A")))
          => /\ \A r \in RegNames : SameRegister(r)
             /\ out' = "error: division by zero"
             /\ pc' = "input"
       /\ (Pressed("sqrt") /\ Read(Bank, "M").kind # "ValueError" /\ IsNegative(Read(Bank, "M")))
          => /\ \A r \in RegNames : SameRegister(r)
             /\ out' = "error: squared root of negative number"
             /\ pc' = "input"]_vars

\* the longest suffix of h made of digit keys
RECURSIVE TrailingDigits(_)
TrailingDigits(h) ==
    IF h = <<>> THEN <<>>
    ELSE IF h[Len(h)] \in DigitKeys
    THEN Append(TrailingDigits(SubSeq(h, 1, Len(h) - 1)), h[Len(h)])
    ELSE <<>>

\* the integer d1 d2 ... dk (dk least significant) of digit keys
Entered(ds) == MkInt(FALSE, Norm([i \in 1..Len(ds) |-> IntOf(ds[Len(ds) + 1 - i])]))

\* keys after which previous_key is that key, neither a digit nor a comma
ContextKeys == {"_", "down"}

\* C5: k digit keys (1 <= k <= 22) pressed from the start-up state, or right
\* after a key that left a previous_key that is neither digit nor comma,
\* leave M reading the integer d1 ... dk.
C5_DigitEntry ==
    LET ds     == TrailingDigits(hist)
        before == Len(hist) - Len(ds)
    IN  (/\ Len(ds) >= 1
         /\ Len(ds) <= REG_LEN_MAX - 2
         /\ before = 0 \/ hist[before] \in ContextKeys)
        => Read(Bank, "M") = Entered(ds)

\* C5 witness: 22 digits entered after the sign key, over a negative M
C5_Witness ==
    /\ Len(hist) = 24
    /\ hist[1] = "1" /\ hist[2] = "_"
    /\ \A i \in 3..24 : hist[i] = "9"
    /\ Read(Bank, "M") = Entered(SubSeq(hist, 3, 24))

\* C6: a digit key after a digit or comma, with M full (top slot occupied,
\* or float position 21), reports "register full" and leaves M as it was;
\* otherwise the digit is appended with every digit kept: the top slot was
\* 0, the old digits move up by one, and the float position stays <= 21.
C6_NoDigitLost ==
    [][\A k \in DigitKeys :
        (Pressed(k) /\ previous_key \in DigitKeys \cup {","})
        => IF ~(Cell("M")[21] = 0 /\ Cell("M")[22] # 21)
           THEN /\ out' = "error: M.reg is full"
                /\ SameRegister("M")
           ELSE /\ Cell("M")[21] = 0
                /\ \A i \in 0..20 : CellAfter("M")[i + 1] = Cell("M")[i]
                /\ CellAfter("M")[0] = IntOf(k)
                /\ CellAfter("M")[22] <= 21
                /\ CellAfter("M")[23] = Cell("M")[23]]_vars

\* C6 witness: the 23rd digit refused, the 22 digits still there
C6_Witness ==
    /\ out = "error: M.reg is full"
    /\ Len(hist) = 23
    /\ Read(Bank, "M") = Entered(SubSeq(hist, 1, 22))
    /\ Cell("M")[21] = 9

\* C7: a key that mutates only M (the sign key) leaves every other register
\* as it was, and a key that writes only A (add, subtract) leaves M as it was.
C7_NoAliasing ==
    [][/\ Pressed("_") => \A r \in RegNames \ {"M"} : SameRegister(r)
       /\ (Pressed("+") \/ Pressed("-")) => SameRegister("M")]_vars

\* C8: right after transfer-down A has the digits, sign, float position and
\* float_active of M and reads the same; after transfer-up so does the
\* register named by previous_key; M is unchanged.
C8_TransferCopies ==
    [][/\ Pressed("down")
          => /\ SameRegister("M")
             /\ CellAfter("A") = Cell("M")
             /\ float_active'["A"] = float_active["M"]
             /\ ReadAfter("A") = Read(Bank, "M")
       /\ (Pressed("up") /\ previous_key \in SecondaryNames)
          => /\ SameRegister("M")
             /\ CellAfter(previous_key) = Cell("M")
             /\ float_active'[previous_key] = float_active["M"]
             /\ ReadAfter(previous_key) = Read(Bank, "M")]_vars

\* C9: for integer M and A whose product fits in 22 digits, after the
\* multiply key A and R both read M * A.
C9_MultiplyExact ==
    [][(/\ Pressed("mul")
        /\ IntOperands
        /\ Len(IntMul(Read(Bank, "M"), Read(Bank, "A")).mag) <= REG_LEN_MAX - 2)
       => /\ ReadAfter("A") = IntMul(Read(Bank, "M"), Read(Bank, "A"))
          /\ ReadAfter("R") = IntMul(Read(Bank, "M"), Read(Bank, "A"))]_vars

\* C10: write_register(value) followed by read_register() gives value back,
\* for every signed integer of at most 22 digits and every previous content.
C10_RoundTrip ==
    (Len(hist) >= 1 /\ hist[1] = "write_register")
    => /\ pc = "input"
       /\ Read(Bank, "A").kind = "int"
       /\ StrInt(Read(Bank, "A")) = Tail(hist)

\* C11: the key processor never terminates: after every finite sequence of
\* keys the loop is back at input() (or the debugger of key P is waiting for
\* its next line), no exception has ended it.
C11_NeverTerminates == pc \in {"input", "pdb"}

\* C13: an invalid token (empty, several characters, or one character that
\* is no key and no register name) changes neither previous_key,
\* previous_key_backup, n_digits nor any register.
C13_InvalidNoOp ==
    [][(\E tok \in InvalidTokens \cup (OtherChars \ RegNames) : Pressed(tok))
        => UNCHANGED <<previous_key, previous_key_backup, n_digits,
                       reg, heap, float_active>>]_vars

\* C12: a write of a value of more than 22 digits fails with the overflow
\* condition and leaves the register's cells as they were; and no write of
\* an integer stores a digit in the float-position cell or the sign cell
\* (the sign cell holds the sign of the value, 1 for negative).
C12_OverflowAtomic ==
    [][\A v \in WideValues :
        (hist = <<>> /\ hist' = <<"write_register">> \o StrInt(v))
        => /\ Len(v.mag) > REG_LEN_MAX - 2
                => pc' = "Exception" /\ CellAfter("A") = Cell("A")
           /\ CellAfter("A")[22] = Cell("A")[22]
           /\ CellAfter("A")[23] = (IF v.neg THEN 1 ELSE 0)]_vars

\* C14: for integer M and A whose sum (difference) fits in 22 digits, after
\* the key + A reads M + A, after the key - A reads M - A, and M and every
\* register other than A is as it was.
C14_AddSubExact ==
    [][/\ (/\ Pressed("+")
           /\ IntOperands
           /\ Len(IntAdd(Read(Bank, "M"), Read(Bank, "A")).mag) <= REG_LEN_MAX - 2)
          => /\ ReadAfter("A") = IntAdd(Read(Bank, "M"), Read(Bank, "A"))
             /\ \A r \in RegNames \ {"A"} : SameRegister(r)
       /\ (/\ Pressed("-")
           /\ IntOperands
           /\ Len(IntSub(Read(Bank, "M"), Read(Bank, "A")).mag) <= REG_LEN_MAX - 2)
          => /\ ReadAfter("A") = IntSub(Read(Bank, "M"), Read(Bank, "A"))
             /\ \A r \in RegNames \ {"A"} : SameRegister(r)]_vars

\* C15: the secondary display key pressed right after a register name X:
\* for X in A, B, C, D, E, F the register X is erased (all cells 0, no
\* float) and every other register is as it was; for X = R no register
\* changes; in both cases the loop goes on to the next key.
C15_SecondaryDisplay ==
    [][(Pressed("*") /\ previous_key \in DisplayNames)
        => /\ pc' = "input"
           /\ previous_key # "R"
                => /\ CellAfter(previous_key) = Zeros
                   /\ ~float_active'[previous_key]
                   /\ ReadAfter(previous_key) = MkInt(FALSE, <<>>)
                   /\ \A r \in RegNames \ {previous_key} : SameRegister(r)
           /\ previous_key = "R" => \A r \in RegNames : SameRegister(r)]_vars

\* C16: the swap key after a name X in B..F exchanges the integer contents
\* of A and X; after the name A it leaves in A the absolute value of A; in
\* every other context it changes no register.
C16_SwapAbs ==
    [][Pressed("updown")
        => /\ (previous_key \in SecondaryNames /\ Read(Bank, "A").kind = "int"
                 /\ Read(Bank, previous_key).kind = "int")
                => /\ ReadAfter("A") = Read(Bank, previous_key)
                   /\ ReadAfter(previous_key) = Read(Bank, "A")
           /\ (previous_key = "A" /\ Read(Bank, "A").kind = "int")
                => ReadAfter("A") = IntAbs(Read(Bank, "A"))
           /\ previous_key \notin SecondaryNames \cup {"A"}
                => \A r \in RegNames : SameRegister(r)]_vars

\* C17: after a divide key aborted by division by zero (A reads 0, M can be
\* read) previous_key is the divide key.
C17_DivZeroAdvances ==
    [][(/\ Pressed("div")
        /\ Read(Bank, "M").kind # "ValueError"
        /\ Read(Bank, "A").kind # "ValueError"
        /\ IsZero(Read(Bank, "A")))
       => previous_key' = "div"]_vars

\* the digit window of a register holding the digit keys ds, the last one
\* at index 0
Window(ds) ==
    [j \in 0..(REG_LEN_MAX - 3) |->
        IF j < Len(ds) THEN IntOf(ds[Len(ds) - j]) ELSE 0]

\* C18: from a fresh context (start-up, or a previous_key that is neither
\* digit nor comma), after integer digits D (at least one), a comma and
\* fractional digits F (possibly none yet) with |D| + |F| <= 22, M has
\* float_active true, float position |F|, and its digit window holds D
\* followed by F; right after the comma (F empty) the window still holds D.
C18_FloatPosition ==
    LET fs     == TrailingDigits(hist)
        comma  == Len(hist) - Len(fs)
        ds     == IF comma >= 1 THEN TrailingDigits(SubSeq(hist, 1, comma - 1)) ELSE <<>>
        before == comma - 1 - Len(ds)
    IN  (/\ comma >= 2
         /\ hist[comma] = ","
         /\ Len(ds) >= 1
         /\ Len(ds) + Len(fs) <= REG_LEN_MAX - 2
         /\ before = 0 \/ hist[before] \in ContextKeys)
        => /\ float_active["M"]
           /\ float_pos(Cell("M")) = Len(fs)
           /\ \A j \in 0..(REG_LEN_MAX - 3) : Cell("M")[j] = Window(ds \o fs)[j]

\* C18 witness: one integer digit, the comma and 21 fractional digits
C18_Witness ==
    /\ Len(hist) = 23
    /\ hist[1] = "1" /\ hist[2] = ","
    /\ \A i \in 3..23 : hist[i] = "9"
    /\ float_active["M"]
    /\ float_pos(Cell("M")) = 21
    /\ Cell("M")[21] = 1 /\ Cell("M")[0] = 9

\* C19: every register the keys can produce is readable: with float_active
\* true and float position 0 (M right after digit, comma; a register
\* written with a result cut to 0 fractional digits) read_register returns
\* the integer value of the digits with the register's sign.
C19_Readable ==
    \A r \in RegNames :
        (float_active[r] /\ float_pos(Cell(r)) = 0)
        => /\ Read(Bank, r).kind # "ValueError"
           /\ Read(Bank, r).mag = DigitsOf(Cell(r))
           /\ Read(Bank, r).neg = (sign(Cell(r)) = "-" /\ DigitsOf(Cell(r)) # <<>>)

\* C20: a digit key or a comma key leaves the cells (digits, sign, float
\* position) and float_active of A, R, B, C, D, E and F as they were, also
\* after transfers; and a digit is appended in place only while no other
\* register shares M's array.
C20_DigitCommaOnlyM ==
    [][\A k \in DigitKeys \cup {","} :
        Pressed(k)
        => /\ \A r \in RegNames \ {"M"} : SameRegister(r)
           /\ (k \in DigitKeys /\ InStr(previous_key, DigitKeys \cup {","}))
                => \A r \in RegNames \ {"M"} : reg[r] # reg["M"]]_vars

\* C20 witness: M transferred to B and to A, then a new entry in M: A and B
\* still share the old array and read 1
C20_Witness ==
    /\ hist = <<"1", "B", "up", "down", "2">>
    /\ reg["A"] = reg["B"] /\ reg["A"] # reg["M"]
    /\ Read(Bank, "A") = MkInt(FALSE, <<1>>)
    /\ Read(Bank, "B") = MkInt(FALSE, <<1>>)
    /\ Read(Bank, "M") = MkInt(FALSE, <<2>>)

====
